---- MODULE Spec2Model ----
(***************************************************************************)
(* Model of sap-gui-engine: the TransactionRunner (screen order            *)
(* resolution, per-entry processing, screen fill, retried text write,      *)
(* action execution) and the GuiTableControl bulk fill.                    *)
(*                                                                         *)
(* Strings that the code splits on "_" are represented by the list of      *)
(* their "_"-separated segments ("ACTION_PRESS_ENTER" is                   *)
(* <<"ACTION","PRESS","ENTER">>), so that str.split("_") is the list       *)
(* itself and "_".join is the sub-list.  strip(), lower() and str() are     *)
(* given on the strings the model uses.                                    *)
(* The SAP GUI (the COM scripting surface) is the environment: whether an  *)
(* element is found, whether a write is rejected, what the status bar and  *)
(* window 1 show are chosen nondeterministically at each driver call.      *)
(***************************************************************************)
EXTENDS Integers, Sequences, FiniteSets, TLC

\* ------------------------------------------------------------------ bounds
\* most popup dialogs the environment shows for one dismiss_popups call
MaxPopups == 1
\* most write rejections the environment injects in one run
MaxWriteFailures == 4

\* ------------------------------------------------------- program constants
\* tenacity: stop_after_attempt(4) on _fill_text
MaxAttempts == 4
\* next_row_idx_after_pagination for an empty table (ENTER pagination)
GrowthResumeRow == 1
\* next_row_idx_after_pagination for a table with data (PAGE_DOWN)
OverwriteResumeRow == 0
\* page = 1 at the start of _fill_table
FirstPage == 1

\* ------------------------------------------------------------ small helpers
SeqToSet(s) == {s[i] : i \in 1..Len(s)}

\* Python s[from:] on a list, with a 0-based start index
Tail0(s, from) == SubSeq(s, from + 1, Len(s))

\* str.lower() on the strings of the model (action-token segments, column
\* titles, allow-list entries); like the other string tables it is a
\* function on the one string it is applied to, so that the string is
\* computed once
Lower(seg) ==
  LET lowerOf[x \in {seg}] ==
    CASE x = "CLICK" -> "click"
      [] x = "Click" -> "click"
      [] x = "  ITEM  " -> "  item  "
      [] x = "ITEM" -> "item"
      [] x = "Item" -> "item"
      [] x = "Item " -> "item "
      [] x = "QTY" -> "qty"
      [] x = "Qty" -> "qty"
      [] x = "PRESS" -> "press"
      [] x = "ENTER" -> "enter"
      [] x = "DISMISS" -> "dismiss"
      [] x = "POPUPS" -> "popups"
      [] x = "BACK" -> "back"
      [] x = "SEND" -> "send"
      [] x = "VKEY" -> "vkey"
      [] x = "X" -> "x"
      [] x = "False" -> "false"
      [] OTHER -> x
  IN lowerOf[seg]

\* str.strip() on the strings of the model
Strip(s) ==
  LET stripOf[x \in {s}] ==
    CASE x = "  ITEM  " -> "ITEM"
      [] x = "  item  " -> "item"
      [] x = "Item " -> "Item"
      [] x = "item " -> "item"
      [] x = "   " -> ""
      [] x = " 10 " -> "10"
      [] x = " X " -> "X"
      [] OTHER -> x
  IN stripOf[s]

\* Data values: "None" is Python None, "zero" the int 0, "false" the bool
\* False, "" the empty string; every other string is itself.
IsNone(v) == v = "None"
Truthy(v) == v \notin {"None", "", "zero", "false"}
\* the date of the model, datetime.date(2024, 1, 2)
IsDate(v) == v = "date(2024, 1, 2)"
\* value.strftime("%d.%m.%Y")
StrfTime(v) == CASE v = "date(2024, 1, 2)" -> "02.01.2024"
\* str(value)
Str(v) ==
  LET strOf[x \in {v}] ==
    CASE x = "zero" -> "0"
      [] x = "false" -> "False"
      [] x = "date(2024, 1, 2)" -> "2024-01-02"
      [] OTHER -> x
  IN strOf[v]

\* len(s) on the strings the model writes
StrLen(s) ==
  LET strLenOf[x \in {s}] ==
    CASE x = "" -> 0
      [] x \in {"x", "y", "0"} -> 1
      [] x = "10" -> 2
      [] x = "user" -> 4
      [] x = "False" -> 5
      [] x = "secret" -> 6
      [] x = "invalid" -> 7
      [] x \in {"02.01.2024", "2024-01-02"} -> 10
  IN strLenOf[s]

\* s[:n] on the strings the model writes, for len(s) > n
Prefix(s, n) ==
  CASE n = 1 /\ s = "10" -> "1"
    [] n = 1 /\ s = "user" -> "u"
    [] n = 1 /\ s = "False" -> "F"
    [] n = 1 /\ s = "secret" -> "s"
    [] n = 1 /\ s = "invalid" -> "i"
    [] n = 1 /\ s = "02.01.2024" -> "0"
    [] n = 3 /\ s = "user" -> "use"
    [] n = 3 /\ s = "False" -> "Fal"
    [] n = 3 /\ s = "secret" -> "sec"
    [] n = 3 /\ s = "invalid" -> "inv"
    [] n = 3 /\ s = "02.01.2024" -> "02."

\* what a method gives: the value it returns, or the exception it raises
\* with the parts of its message
Returns(value) == [raised |-> "none", value |-> value, message |-> <<>>]
Raises(e, message) == [raised |-> e, value |-> <<>>, message |-> message]

\* dict.get(key) and "key in dict" on a record given as a function
Get(d, key) == IF key \in DOMAIN d THEN d[key] ELSE "None"
Has(d, key) == key \in DOMAIN d

EmptyDict == [k \in {} |-> "None"]

LowerAll(parts) == [i \in 1..Len(parts) |-> Lower(parts[i])]

\* ------------------------------------------------------ GuiVComponent
\* a located widget as the SAP GUI reports it: its type, its maxLength (0
\* when it has none) and, for a combobox, its entries
Widget(type, maxLength, entries) ==
  [type |-> type, maxLength |-> maxLength, entries |-> entries]
Entry(key, value) == [key |-> key, value |-> value]
guiText == Widget("GuiTextField", 0, <<>>)
guiShort == Widget("GuiTextField", 1, <<>>)
guiShort3 == Widget("GuiTextField", 3, <<>>)
guiCombo == Widget("GuiComboBox", 0, << Entry("K1", " X "), Entry("K10", "10") >>)

\* self.name of a widget, the Name property of the COM element: the last
\* segment of its id without the prefix of its type ("lbl", "txt", "pwd"),
\* so that "wnd[0]/usr/lblVBAK-VKORG" has the name "VBAK-VKORG".  A table
\* cell, which has no id here, goes by its column title.
WidgetName(id) ==
  CASE id = "wnd[0]/usr/lblVBAK-VKORG" -> "VBAK-VKORG"
    [] id = "wnd[0]/usr/txtA" -> "A"
    [] id = "wnd[0]/usr/tab/txtA" -> "A"
    [] id = "wnd[0]/usr/txtB" -> "B"
    [] id = "wnd[0]/usr/txtRSYST-BNAME" -> "RSYST-BNAME"
    [] id = "wnd[0]/usr/pwdRSYST-BCODE" -> "RSYST-BCODE"
    [] OTHER -> id

\* set_text: "Element {self.name} ({self.type}) is not changeable."
NotChangeable(w, id) ==
  Raises("SAPElementNotChangeable",
         << "Element ", WidgetName(id), " (", w.type, ") is not changeable." >>)

\* _select_combobox_entry(text): the key of the first entry whose value
\* equals the text after strip().lower() on both, else
\* ComboBoxOptionNotFound
RECURSIVE _select_combobox_entry(_, _, _, _)
_select_combobox_entry(w, id, text, i) ==
  IF i > Len(w.entries)
    THEN Raises("ComboBoxOptionNotFound",
                << "Option '", text, "' not found in ComboBox ", WidgetName(id) >>)
  ELSE IF Lower(Strip(Str(w.entries[i].value))) = Lower(Strip(text))
    THEN Returns([op |-> "combo_key", text |-> w.entries[i].key])
  ELSE _select_combobox_entry(w, id, text, i + 1)

\* set_text(value, raise_error=True) on a changeable widget: a date is
\* formatted, the value is made a stripped string, a combobox selects the
\* entry of that text, any other widget gets the text cut to its maxLength
set_text(w, id, value) ==
  LET clean_value == Strip(Str(IF IsDate(value) THEN StrfTime(value) ELSE value))
  IN IF w.type = "GuiComboBox"
       THEN _select_combobox_entry(w, id, clean_value, 1)
     ELSE IF w.maxLength # 0 /\ StrLen(clean_value) > w.maxLength
       THEN Returns([op |-> "write", text |-> Prefix(clean_value, w.maxLength)])
     ELSE Returns([op |-> "write", text |-> clean_value])

\* ------------------------------------------------------------- data model
\* ElementType: the StrEnum values; COMBOBOX aliases TEXT, and BUTTON,
\* CHECKBOX, RADIO and TAB are all the value "click"
ElementType == {"text", "click", "table", "callable"}

\* ActionType: the StrEnum values, as the segment list of each value
ActionType ==
  { <<"click">>, <<"press", "enter">>, <<"dismiss", "popups">>,
    <<"back">>, <<"send", "vkey">> }

NoAction == [type |-> <<>>, target_id |-> "None", vkey |-> "None"]

\* Action(type=..., target_id=..., vkey=...); "None" is Python None
Action(type, target_id, vkey) ==
  [type |-> type, target_id |-> target_id, vkey |-> vkey]

\* Element(id=..., type=..., name=..., func=...); func is TRUE when bound
Element(id, type, name, func) ==
  [id |-> id, type |-> type, name |-> name, func |-> func]

\* Screen(name, elements, on_entry, on_exit, press_enter); a single Action
\* or None for on_entry/on_exit is the one-element or the empty list
Screen(name, elements, on_entry, on_exit, press_enter) ==
  [name |-> name, elements |-> elements, on_entry |-> on_entry,
   on_exit |-> on_exit, press_enter |-> press_enter]

\* Optional[dict[str, list[str]]]: isNone, or a list of <<table name, cols>>
NoTableColumns == [isNone |-> TRUE, entries |-> <<>>]
TableColumns(entries) == [isNone |-> FALSE, entries |-> entries]

\* ScreenOrderItem(name, table_columns) as an item of the resolved order
ScreenOrderItem(name, table_columns) ==
  [kind |-> "screen", name |-> name, table_columns |-> table_columns,
   action |-> NoAction]

\* an Action as an item of the resolved order
ActionItem(a) ==
  [kind |-> "action", name |-> <<>>, table_columns |-> NoTableColumns,
   action |-> a]

\* raw screen_order entries: a str (its segments), a dict, or anything else
RawStr(parts) == [tag |-> "str", parts |-> parts, table_columns |-> NoTableColumns]
RawDict(name, tc) == [tag |-> "dict", parts |-> name, table_columns |-> tc]
RawOther == [tag |-> "other", parts |-> <<>>, table_columns |-> NoTableColumns]

\* --------------------------------------------------- _build_screen_order
\* The items one raw entry appends to result, and the exception it raises
\* ("none" when it raises nothing).  An ACTION_CLICK_x entry appends the
\* CLICK action and then falls through to ActionType("click_x").
BuildOne(raw) ==
  IF raw.tag = "str" THEN
    IF Len(raw.parts) >= 2 /\ raw.parts[1] = "ACTION" THEN
      LET parts == raw.parts
          first == Lower(parts[2])
          isClick == <<first>> = <<"click">>
          rest == LowerAll(Tail0(parts, 1))
      IN IF isClick /\ Len(parts) < 3
           THEN [items |-> <<>>, err |-> "IndexError"]
         ELSE
           LET clickItems ==
                 IF isClick
                   THEN << ActionItem(Action(<<"click">>, parts[3], "None")) >>
                   ELSE <<>>
           IN IF rest \in ActionType
                THEN [items |-> clickItems \o
                         << ActionItem(Action(rest, "None", "None")) >>,
                      err |-> "none"]
                ELSE [items |-> clickItems, err |-> "ValueError"]
    ELSE [items |-> << ScreenOrderItem(raw.parts, NoTableColumns) >>,
          err |-> "none"]
  ELSE IF raw.tag = "dict" THEN
    [items |-> << ScreenOrderItem(raw.parts, raw.table_columns) >>,
     err |-> "none"]
  ELSE [items |-> <<>>, err |-> "none"]

RECURSIVE BuildFrom(_, _, _)
BuildFrom(order, i, acc) ==
  IF i > Len(order) THEN [items |-> acc, err |-> "none"]
  ELSE LET one == BuildOne(order[i])
       IN IF one.err # "none"
            THEN [items |-> acc \o one.items, err |-> one.err]
            ELSE BuildFrom(order, i + 1, acc \o one.items)

\* _build_screen_order(screen_order); screen_order None is not iterable
NoOrder == [isNone |-> TRUE, list |-> <<>>]
Order(list) == [isNone |-> FALSE, list |-> list]

_build_screen_order(screen_order) ==
  IF screen_order.isNone THEN [items |-> <<>>, err |-> "TypeError"]
  ELSE BuildFrom(screen_order.list, 1, <<>>)

\* ------------------------------------------------ GuiTableControl helpers
\* full_map of _get_column_map: the list of <<title, index>> in dict
\* insertion order; a repeated title keeps its place and takes the new index
RECURSIVE FullMap(_, _, _)
FullMap(columns, i, acc) ==
  IF i > Len(columns) THEN acc
  ELSE
    LET title == Lower(Strip(columns[i]))
        at == {j \in 1..Len(acc) : acc[j][1] = title}
        acc2 == IF title = "" THEN acc
                ELSE IF at # {}
                  THEN [j \in 1..Len(acc) |->
                          IF j \in at THEN <<title, i - 1>> ELSE acc[j]]
                  ELSE Append(acc, <<title, i - 1>>)
    IN FullMap(columns, i + 1, acc2)

\* the dict comprehension over full_map.items() that keeps the pairs
\* satisfying keep
RECURSIVE FilterMap(_, _)
FilterMap(m, keep) ==
  IF m = <<>> THEN <<>>
  ELSE IF Head(m)[1] \in keep
         THEN <<Head(m)>> \o FilterMap(Tail(m), keep)
         ELSE FilterMap(Tail(m), keep)

MapTitles(m) == {m[j][1] : j \in 1..Len(m)}

\* _get_column_map(include_cols, exclude_cols); columns are the grid's
\* column titles; <<>> stands for both None and the empty list.  With
\* both lists given it raises ValueError.
_get_column_map(columns, include_cols, exclude_cols) ==
  LET full_map == FullMap(columns, 1, <<>>)
  IN IF include_cols # <<>> /\ exclude_cols # <<>>
       THEN Raises("ValueError",
                   << "Cannot specify both include_cols and exclude_cols" >>)
     ELSE IF include_cols # <<>>
       THEN Returns(FilterMap(full_map,
                      {Lower(include_cols[j]) : j \in 1..Len(include_cols)}))
     ELSE IF exclude_cols # <<>>
       THEN Returns(FilterMap(full_map, MapTitles(full_map) \
                      {Lower(exclude_cols[j]) : j \in 1..Len(exclude_cols)}))
     ELSE Returns(full_map)

\* ------------------------------------------------------------------ state
VARIABLES
  cfg,            \* the arguments of the constructor, or of fill()
  pc,             \* where the program is
  screen_order,   \* self.screen_order
  processed,      \* self._processed_elements
  idx,            \* run(): position in self.screen_order (1-based)
  ai,             \* _execute_actions: position in action_list
  ei,             \* _fill_screen: position in screen.elements
  attempt,        \* _fill_text: attempt number under @retry
  err,            \* the exception that ended the program, or "none"
  trace,          \* the driver calls made so far, in order
  failures,       \* write rejections the environment has injected
  tdata,          \* fill(): data
  tcolumns,       \* fill(): columns
  texclude,       \* fill(): exclude_columns
  column_map,     \* self.column_map
  visible_rows,   \* self.visible_rows
  is_table_empty, \* fill(): VerticalScrollbar.Maximum == 0
  pagination_key, \* fill(): pagination_key
  next_row_idx_after_pagination,
  page,           \* _fill_table: page
  current_row_idx,\* _fill_table: current_row_idx
  ri,             \* _fill_table: position in data (1-based)
  placed,         \* the (record, page, row) of each _upate_row_cells call
  sbar,           \* MessageType of the status bar as the last commit left it
  ret,            \* what a direct call of an engine method returned
  msg,            \* the message of the exception an engine method raised
  _app,           \* SAPConnectionManager._app
  _connection,    \* SAPConnectionManager._connection
  _session,       \* SAPConnectionManager._session
  children        \* the connections open in SAP GUI (self._app.Children)

runVars == <<screen_order, processed, idx, ai, ei, attempt, failures>>
tblVars == <<tdata, tcolumns, texclude, column_map, visible_rows,
             is_table_empty, pagination_key, next_row_idx_after_pagination,
             page, current_row_idx, ri, placed>>
connVars == <<_app, _connection, _session, children>>
vars == <<cfg, pc, err, trace, sbar, ret, msg, runVars, tblVars, connVars>>

\* ------------------------------------------- the screens of the model
\* the grid of the screens: its id and its column titles
GridId == "wnd[0]/usr/tblT"
GridColumns == << "  ITEM  ", "Qty", "", "Item " >>

\* elements
elA == Element("wnd[0]/usr/txtA", "text", "A", FALSE)
elB == Element("wnd[0]/usr/txtB", "text", "B", FALSE)
elA2 == Element("wnd[0]/usr/tab/txtA", "text", "A", FALSE)
elT == Element(GridId, "table", "T", FALSE)
elF == Element("wnd[0]/usr/cmbF", "callable", "F", TRUE)
elG == Element("wnd[0]/usr/cmbG", "callable", "G", FALSE)
elBtn == Element("wnd[0]/usr/btnOK", "click", "BTN", FALSE)

\* actions
acClick == Action(<<"click">>, "wnd[0]/tbar[1]/btn[5]", "None")
acClickNoTarget == Action(<<"click">>, "None", "None")
acEnter == Action(<<"press", "enter">>, "None", "None")
acDismiss == Action(<<"dismiss", "popups">>, "None", "None")
acBack == Action(<<"back">>, "None", "None")
acVKey == Action(<<"send", "vkey">>, "None", "F8")
acVKeyNoKey == Action(<<"send", "vkey">>, "None", "None")

\* screens
scHeader == Screen(<<"Header">>, <<elA, elB>>, <<acClick>>, <<acBack>>, TRUE)
scItems == Screen(<<"Items">>, <<elT>>, <<>>, <<acVKey>>, TRUE)
scExtra == Screen(<<"Extra">>, <<elA2, elF>>, <<>>,
                  <<acEnter, acDismiss>>, FALSE)
scBroken == Screen(<<"Broken">>, <<elB, elBtn, elA>>, <<>>, <<acBack>>, TRUE)
scNoFunc == Screen(<<"NoFunc">>, <<elG>>, <<acEnter>>, <<>>, TRUE)
scKeys == Screen(<<"Keys">>, <<elB>>, <<acVKey, acVKeyNoKey, acBack>>,
                 <<>>, TRUE)
scTarget == Screen(<<"Target">>, <<elA>>, <<acClickNoTarget>>, <<>>, FALSE)

ScreenMap ==
  << scHeader, scItems, scExtra, scBroken, scNoFunc, scKeys, scTarget >>

\* ------------------------------------------------- TransactionRunner data
\* faulty variant of ScreenMapGet: an unknown name gives the first screen
ScreenMapGetOrFirst(name) ==
  IF \E j \in 1..Len(ScreenMap) : ScreenMap[j].name = name
    THEN {ScreenMap[i] : i \in {j \in 1..Len(ScreenMap) :
                                 ScreenMap[j].name = name}}
    ELSE {ScreenMap[1]}

\* self.screen_map.get(name): the screen of that name, as a set (empty or
\* one screen)
ScreenMapGet(name) ==
  {ScreenMap[i] : i \in {j \in 1..Len(ScreenMap) :
                            ScreenMap[j].name = name}}

\* list(screen_map.keys()) as a raw screen order
ScreenMapKeys ==
  Order([i \in 1..Len(ScreenMap) |-> RawStr(ScreenMap[i].name)])

\* _get_data_for_screen: (screen_data.get(name) if screen_data else None)
\* or data; a list gives its first record and itself, a dict gives itself
\* and the one-record list
_get_data_for_screen(screen) ==
  LET sd == cfg.screen_data
      own == IF screen.name \in DOMAIN sd THEN sd[screen.name] ELSE EmptyDict
      useOwn == DOMAIN sd # {} /\ DOMAIN own # {}
      data == IF useOwn THEN [isList |-> FALSE, recs |-> <<own>>] ELSE cfg.data
  IN IF data.isList
       THEN [current_data |-> IF data.recs # <<>> THEN data.recs[1]
                              ELSE EmptyDict,
             line_items |-> data.recs]
       ELSE [current_data |-> data.recs[1], line_items |-> data.recs]

\* _data_is_in_screen: the loop over screen.elements returns True at the
\* first TABLE element or the first element with a truthy data.get(name)
RECURSIVE DataInFrom(_, _, _)
DataInFrom(elements, data, i) ==
  IF i > Len(elements) THEN FALSE
  ELSE IF elements[i].type = "table" THEN TRUE
  ELSE IF Truthy(Get(data, elements[i].name)) THEN TRUE
  ELSE DataInFrom(elements, data, i + 1)

\* faulty variant of _data_is_in_screen: every screen counts as having data
DataIsInScreenAlways(screen, data) == TRUE

_data_is_in_screen(screen, data) == DataInFrom(screen.elements, data, 1)

\* table_columns.get(element.name): the configured list, <<>> for None
RECURSIVE TableColsGet(_, _)
TableColsGet(entries, name) ==
  IF entries = <<>> THEN <<>>
  ELSE IF Head(entries)[1] = name THEN Head(entries)[2]
  ELSE TableColsGet(Tail(entries), name)

\* ------------------------------------------------------------ where we are
CurItem == screen_order[idx]
CurScreen == CHOOSE sc \in ScreenMapGet(CurItem.name) : TRUE
CurData == _get_data_for_screen(CurScreen)
CurElement == CurScreen.elements[ei]
CurActions ==
  CASE pc = "bare" -> << CurItem.action >>
    [] pc = "on_entry" -> CurScreen.on_entry
    [] pc = "on_exit" -> CurScreen.on_exit

\* faulty variant of Raise: the error is recorded but the run carries on
RaiseSwallowed(e) == pc' = pc /\ err' = e

\* "raise": the program stops with error e
Raise(e) == pc' = "raised" /\ err' = e

\* "raise exception(message)"
RaiseMsg(e, message) == Raise(e) /\ msg' = message

\* ----------------------------------------------------------- driver calls
\* One driver call: op, two string arguments, two integer arguments, and
\* where it was made: ent the position of the screen-order entry, site the
\* piece of code, pos the position in the action list or element list, el
\* the name of the element being filled.
InFill == pc \in {"fill", "table_start", "table_rows"} /\ cfg.kind = "run"
Site ==
  CASE pc \in {"bare", "on_entry", "on_exit"} -> pc
    [] pc = "fill" ->
         IF ei > Len(CurScreen.elements) THEN "commit" ELSE "element"
    [] pc = "table_start" -> "table_fill"
    [] pc = "table_rows" -> IF ri > Len(tdata) THEN "table_commit"
                            ELSE "table_row"
    [] OTHER -> "run"
ElName == IF InFill /\ Site # "commit" THEN CurElement.name ELSE ""
Ev(op, a, b, n, m) ==
  [op |-> op, a |-> a, b |-> b, n |-> n, m |-> m, ent |-> idx,
   site |-> Site,
   pos |-> IF InFill THEN ei
           ELSE IF pc \in {"bare", "on_entry", "on_exit"} THEN ai ELSE 0,
   el |-> ElName]

\* SAPGuiEngine.send_vkey(key, window_index): window 0 is always there
SendVKey(key, wnd) == << Ev("vkey", key, wnd, 0, 0) >>

\* SAPGuiEngine.press_enter()
PressEnter == SendVKey("ENTER", "wnd[0]")

\* SAPGuiEngine.dismiss_popups(): k popup dialogs show up one after the
\* other on window 1, each gets one ENTER, then window 1 is gone
RECURSIVE PopupKeys(_)
\* faulty variant of PopupKeys: one more key is sent after the last popup
\* has gone
PopupKeysOneMore(k) ==
  [i \in 1..(k + 1) |-> Ev("vkey", "ENTER", "wnd[1]", 0, 0)]

PopupKeys(k) ==
  IF k = 0 THEN <<>>
  ELSE << Ev("vkey", "ENTER", "wnd[1]", 0, 0) >> \o PopupKeys(k - 1)

DismissPopups(k) == << Ev("dismiss_popups", "", "", k, 0) >> \o PopupKeys(k)

\* the popup counts the environment may choose for one dismiss_popups call
PopupChoices == IF cfg.popups THEN 0..MaxPopups ELSE {0}

\* SAPGuiEngine.raise_for_status(): reads the status bar; type "E" raises
RaiseForStatus(type) == << Ev("status", type, "", 0, 0) >>
StatusTypes == {"S", "E"}

\* SAPGuiEngine.raise_if_error_dialog(): window 1 "absent", a dismissable
\* "popup", or a "modal" window that is not a popup, which raises
RaiseIfErrorDialog(w) == << Ev("error_dialog", w, "", 0, 0) >>
\* faulty variant of ErrorDialogRaises: the error check never raises
ErrorDialogRaisesNever(w) == FALSE

\* raise_if_error_dialog(): returns when window 1 is absent ("if not wnd")
\* or is a popup dialog ("if is_popup"), raises the given exception otherwise
ErrorDialogRaises(w) == w = "modal"

DialogChoices ==
  IF cfg.popups THEN {"absent", "popup", "modal"} ELSE {"absent", "modal"}


\* --------------------------------------------------------------- actions
\* TransactionRunner.__init__: self.screen_order is the resolved order, or
\* the resolved keys of the screen map when that is empty
__init__ ==
  /\ pc = "init"
  /\ LET first == _build_screen_order(cfg.screen_order)
         res == IF first.err # "none" \/ first.items # <<>> THEN first
                ELSE _build_screen_order(ScreenMapKeys)
     IN IF res.err # "none"
          THEN Raise(res.err) /\ screen_order' = screen_order
          ELSE pc' = "ready" /\ err' = err /\ screen_order' = res.items
  /\ UNCHANGED <<cfg, connVars, sbar, ret, msg, trace, processed, idx, ai, ei, attempt, failures,
                 tblVars>>

\* the status bar texts of the model
StatusTexts ==
  {"", "Transaction X does not exist", "TRANSACTION X DOES NOT EXIST",
   "Document 1234 saved"}

\* str.lower() on the status bar texts of the model
LowerText(text) ==
  CASE text = "Transaction X does not exist" -> "transaction x does not exist"
    [] text = "TRANSACTION X DOES NOT EXIST" -> "transaction x does not exist"
    [] text = "Document 1234 saved" -> "document 1234 saved"
    [] text = "User X is already logged on" -> "user x is already logged on"
    [] text = "USER X IS ALREADY LOGGED ON" -> "user x is already logged on"
    [] text = "Name or password is incorrect" ->
         "name or password is incorrect"
    [] OTHER -> text

\* Python's "sub in s" on the texts of the model
Contains(sub, s) ==
  CASE sub = "does not exist" -> s \in {"transaction x does not exist"}
    [] sub = "already logged on" -> s \in {"user x is already logged on"}
    [] OTHER -> s = sub

\* start_transaction: '"does not exist" in status["text"].lower()'
TCodeInvalid(text) == Contains("does not exist", LowerText(text))

\* start_transaction: f"Transaction {tcode} failed: {status['text']}", as
\* the list of its pieces
TransactionFailed(tcode, text) == << "Transaction ", tcode, " failed: ", text >>

\* start_transaction has no return statement: it returns None
StartTransactionResult == "None"

\* run() up to its loop: SAPGuiEngine.start_transaction(tcode) starts the
\* transaction, reads the status bar and raises SAPTransactionError when
\* its text contains "does not exist"
StartRun ==
  /\ \E text \in {"", "Transaction X does not exist"} :
       /\ trace' = trace \o << Ev("start_transaction", cfg.tcode, "", 0, 0),
                                Ev("statusbar", text, "", 0, 0) >>
       /\ IF TCodeInvalid(text)
            THEN /\ Raise("SAPTransactionError")
                 /\ msg' = TransactionFailed(cfg.tcode, text)
                 /\ idx' = idx
            ELSE pc' = "entry" /\ err' = err /\ idx' = 1 /\ msg' = msg
  /\ UNCHANGED <<cfg, connVars, sbar, ret, screen_order, processed, ai, ei, attempt,
                 failures, tblVars>>

\* the first call of run() on the constructed TransactionRunner
run == pc = "ready" /\ StartRun

\* most calls of run() on one TransactionRunner
MaxRuns == 2

\* the calls of run() made so far
Runs ==
  Cardinality({i \in 1..Len(trace) : trace[i].op = "start_transaction"})

\* a further call of run() on the same TransactionRunner, after the
\* previous call has returned: nothing but the method runs again, on the
\* attributes the previous call left behind
run_again == pc = "done" /\ cfg.kind = "run" /\ Runs < MaxRuns /\ StartRun

\* run(): the loop over self.screen_order is exhausted
run_return ==
  /\ pc = "entry"
  /\ idx > Len(screen_order)
  /\ pc' = "done"
  /\ UNCHANGED <<cfg, connVars, sbar, ret, msg, err, trace, runVars, tblVars>>

\* faulty variant of FirstPhase: the entry actions are left out
FirstPhaseNoEntry(screen) == "fill"

\* _process_screen: "if screen.on_entry:" runs the entry actions before
\* _fill_screen
FirstPhase(screen) == IF screen.on_entry # <<>> THEN "on_entry" ELSE "fill"

\* _process_screen up to the first driver call: a bare Action goes to
\* _execute_actions, an unknown screen raises, a screen without data is
\* skipped, otherwise on_entry (if any) and then _fill_screen follow
_process_screen ==
  /\ pc = "entry"
  /\ idx <= Len(screen_order)
  /\ IF CurItem.kind = "action"
       THEN pc' = "bare" /\ ai' = 1 /\ UNCHANGED <<err, idx, ei>>
     ELSE IF ScreenMapGet(CurItem.name) = {}
       THEN Raise("ScreenMappingError") /\ UNCHANGED <<idx, ai, ei>>
     ELSE IF ~ _data_is_in_screen(CurScreen, CurData.current_data)
       THEN idx' = idx + 1 /\ UNCHANGED <<pc, err, ai, ei>>
     ELSE IF FirstPhase(CurScreen) = "on_entry"
       THEN pc' = "on_entry" /\ ai' = 1 /\ UNCHANGED <<err, idx, ei>>
     ELSE pc' = "fill" /\ ei' = 1 /\ UNCHANGED <<err, idx, ai>>
  /\ UNCHANGED <<cfg, connVars, sbar, ret, msg, trace, screen_order, processed, attempt, failures,
                 tblVars>>

\* what follows the last action of the list _execute_actions was given
AfterActions ==
  IF pc = "on_entry" THEN pc' = "fill" /\ ei' = 1 /\ idx' = idx
  ELSE pc' = "entry" /\ idx' = idx + 1 /\ ei' = ei

\* faulty variant of NoTarget: the test for a missing target is left out
NoTargetNever(action) == FALSE

\* _execute_actions: "if action.target_id is None:"
NoTarget(action) == action.target_id = "None"

\* _execute_actions: "if action.vkey is None:"
NoVKey(action) == action.vkey = "None"

\* _execute_actions: self.sap.send_vkey(VKey.F3)
BackKey == "F3"

\* faulty variant of ClickTarget: the click is made whether or not the
\* target was found
ClickTargetAnyway(target_id, found) ==
  << Ev("find", target_id, IF found THEN "found" ELSE "missing", 0, 0),
     Ev("click", target_id, "", 0, 0) >>

\* _execute_actions: target = find_by_id(target_id, raise_error=False);
\* a target that is not found is logged, one that is found is clicked
ClickTarget(target_id, found) ==
  IF found
    THEN << Ev("find", target_id, "found", 0, 0),
            Ev("click", target_id, "", 0, 0) >>
    ELSE << Ev("find", target_id, "missing", 0, 0) >>

\* _execute_actions: one iteration of its loop.  found is whether
\* find_by_id locates the CLICK target, k the popups dismiss_popups meets
_execute_actions ==
  /\ pc \in {"bare", "on_entry", "on_exit"}
  /\ ai <= Len(CurActions)
  /\ LET action == CurActions[ai]
         next == /\ err' = err
                 /\ IF ai = Len(CurActions)
                      THEN AfterActions /\ ai' = 1
                      ELSE ai' = ai + 1 /\ UNCHANGED <<pc, idx, ei>>
         fail == Raise("ActionConfigurationError")
                 /\ UNCHANGED <<trace, idx, ai, ei>>
     IN CASE action.type = <<"click">> ->
               IF NoTarget(action) THEN fail
               ELSE \E found \in BOOLEAN :
                      /\ trace' = trace \o ClickTarget(action.target_id, found)
                      /\ next
          [] action.type = <<"press", "enter">> ->
               trace' = trace \o PressEnter /\ next
          [] action.type = <<"dismiss", "popups">> ->
               \E k \in PopupChoices :
                  trace' = trace \o DismissPopups(k) /\ next
          [] action.type = <<"back">> ->
               trace' = trace \o SendVKey(BackKey, "wnd[0]") /\ next
          [] action.type = <<"send", "vkey">> ->
               IF NoVKey(action) THEN fail
               ELSE trace' = trace \o SendVKey(action.vkey, "wnd[0]") /\ next
          [] OTHER -> fail
  /\ UNCHANGED <<cfg, connVars, sbar, ret, msg, screen_order, processed, attempt, failures, tblVars>>

\* faulty variant of AlreadyProcessed: the set of processed names is ignored
AlreadyProcessedNever(name) == FALSE

\* _fill_screen: "if element.name in self._processed_elements: continue"
AlreadyProcessed(name) == name \in processed

\* _fill_screen: the loop meets an element whose name was already filled
_fill_screen_skip ==
  /\ pc = "fill"
  /\ ei <= Len(CurScreen.elements)
  /\ AlreadyProcessed(CurElement.name)
  /\ ei' = ei + 1
  /\ UNCHANGED <<cfg, connVars, sbar, ret, msg, pc, err, trace, screen_order, processed, idx, ai,
                 attempt, failures, tblVars>>

\* faulty variant of RetryStops: one attempt too few
RetryStopsEarly(n) == n >= MaxAttempts - 1

\* @retry(stop=stop_after_attempt(4)): no retry after attempt number n
RetryStops(n) == n >= MaxAttempts

\* faulty variant of MarkIf: the name is marked whatever _fill_text returned
MarkAnyway(result, name) == processed \cup {name}

\* _fill_screen: "result = self._fill_text(...)"; "if result:
\* self._processed_elements.add(element.name)"
MarkIf(result, name) ==
  IF result THEN processed \cup {name} ELSE processed

\* _fill_text under @retry(reraise=True, stop=stop_after_attempt(4)): one
\* attempt of a TEXT element.  Without a value it returns None; when the
\* element is not found it returns False; "sap_el.text = value" is
\* set_text(value, raise_error=True), which raises when the element is not
\* changeable or when a combobox has no such entry; any exception is
\* followed by press_enter() in the except clause and then retried or,
\* after the last attempt, re-raised as it is; a write that succeeds marks
\* the element.
_fill_text ==
  /\ pc = "fill"
  /\ ei <= Len(CurScreen.elements)
  /\ ~ AlreadyProcessed(CurElement.name)
  /\ CurElement.type = "text"
  /\ LET data == CurData.current_data
         value == Get(data, CurElement.name)
         result == set_text(cfg.gui, CurElement.id, value)
         found == << Ev("find", CurElement.id, "found", 0, 0) >>
         failed(raised) ==
           IF ~ RetryStops(attempt)
             THEN attempt' = attempt + 1 /\ UNCHANGED <<pc, err, msg>>
             ELSE RaiseMsg(raised.raised, raised.message) /\ attempt' = attempt
     IN IF ~ (~ IsNone(value) /\ Has(data, CurElement.name))
          THEN /\ ei' = ei + 1
               /\ processed' = MarkIf(FALSE, CurElement.name)
               /\ UNCHANGED <<pc, err, msg, trace, attempt, failures>>
          ELSE
            \/ /\ trace' = trace \o << Ev("find", CurElement.id, "missing", 0, 0) >>
               /\ ei' = ei + 1
               /\ attempt' = 1
               /\ processed' = MarkIf(FALSE, CurElement.name)
               /\ UNCHANGED <<pc, err, msg, failures>>
            \/ /\ result.raised = "none"
               /\ trace' = trace \o found \o
                    << Ev(result.value.op, CurElement.id, result.value.text,
                          attempt, 0) >>
               /\ processed' = MarkIf(TRUE, CurElement.name)
               /\ ei' = ei + 1
               /\ attempt' = 1
               /\ UNCHANGED <<pc, err, msg, failures>>
            \/ /\ result.raised # "none"
               /\ trace' = trace \o found \o PressEnter
               /\ failed(result)
               /\ UNCHANGED <<processed, ei, failures>>
            \/ /\ failures < MaxWriteFailures
               /\ failures' = failures + 1
               /\ trace' = trace \o found \o
                    << Ev("write_fail", CurElement.id, Strip(Str(value)),
                          attempt, 0) >>
                    \o PressEnter
               /\ failed(NotChangeable(cfg.gui, CurElement.id))
               /\ UNCHANGED <<processed, ei>>
  /\ UNCHANGED <<cfg, connVars, sbar, ret, screen_order, idx, ai, tblVars>>

\* faulty variant of HasFunc: the test for a bound function is left out
HasFuncAlways(element) == TRUE

\* _fill_screen: "if element.func is None:" is false
HasFunc(element) == element.func

\* faulty variant of FuncRaises: an exception of the user function is
\* swallowed
FuncRaisesNever(returns) == FALSE

\* _fill_screen: "element.func(self.sap, data)" is not inside a try: when
\* the function does not return, its exception leaves _fill_screen
FuncRaises(returns) == ~ returns

\* _fill_screen: a CALLABLE element; the user function returns or raises
_fill_screen_callable ==
  /\ pc = "fill"
  /\ ei <= Len(CurScreen.elements)
  /\ ~ AlreadyProcessed(CurElement.name)
  /\ CurElement.type = "callable"
  /\ IF ~ HasFunc(CurElement)
       THEN Raise("ElementConfigurationError")
            /\ UNCHANGED <<trace, processed, ei>>
       ELSE \E returns \in BOOLEAN :
              /\ trace' = trace \o
                   << Ev("call", CurElement.id,
                         IF returns THEN "returned" ELSE "raised", 0, 0) >>
              /\ IF FuncRaises(returns)
                   THEN Raise("UserFunctionError")
                        /\ UNCHANGED <<processed, ei>>
                   ELSE /\ processed' = processed \cup {CurElement.name}
                        /\ ei' = ei + 1
                        /\ UNCHANGED <<pc, err>>
  /\ UNCHANGED <<cfg, connVars, sbar, ret, msg, screen_order, idx, ai, attempt, failures, tblVars>>

\* _fill_screen: a TABLE element up to the call of fill():
\* table_columns.get(element.name) on the item's table_columns (None for
\* an item made from a plain name), then find_by_id(element.id)
_fill_screen_table ==
  /\ pc = "fill"
  /\ ei <= Len(CurScreen.elements)
  /\ ~ AlreadyProcessed(CurElement.name)
  /\ CurElement.type = "table"
  /\ IF CurItem.table_columns.isNone
       THEN Raise("AttributeError")
            /\ UNCHANGED <<trace, tdata, tcolumns, texclude>>
       ELSE \E found \in BOOLEAN :
              IF found
                THEN /\ trace' = trace \o
                          << Ev("find", CurElement.id, "found", 0, 0) >>
                     /\ pc' = "table_start"
                     /\ tdata' = CurData.line_items
                     /\ tcolumns' = TableColsGet(CurItem.table_columns.entries,
                                                 CurElement.name)
                     /\ texclude' = <<>>
                     /\ err' = err
                ELSE /\ trace' = trace \o
                          << Ev("find", CurElement.id, "missing", 0, 0) >>
                     /\ Raise("SAPElementNotFound")
                     /\ UNCHANGED <<tdata, tcolumns, texclude>>
  /\ UNCHANGED <<cfg, connVars, sbar, ret, msg, runVars, column_map, visible_rows, is_table_empty,
                 pagination_key, next_row_idx_after_pagination, page,
                 current_row_idx, ri, placed>>

\* _fill_screen: an element of any other type
_fill_screen_unknown ==
  /\ pc = "fill"
  /\ ei <= Len(CurScreen.elements)
  /\ ~ AlreadyProcessed(CurElement.name)
  /\ CurElement.type \notin {"text", "callable", "table"}
  /\ Raise("ElementConfigurationError")
  /\ UNCHANGED <<cfg, connVars, sbar, ret, msg, trace, runVars, tblVars>>

\* faulty variant of CommitsScreen: every screen is committed
CommitsScreenAlways(screen) == TRUE

\* _fill_screen: "if screen.press_enter:"
CommitsScreen(screen) == screen.press_enter

\* _fill_screen after its loop (press_enter, dismiss_popups,
\* raise_for_status when the screen commits) and the return into
\* _process_screen, which goes on with on_exit or with the next entry
_fill_screen_commit ==
  /\ pc = "fill"
  /\ ei > Len(CurScreen.elements)
  /\ LET cont == /\ err' = err
                 /\ IF CurScreen.on_exit # <<>>
                      THEN pc' = "on_exit" /\ ai' = 1 /\ idx' = idx
                      ELSE pc' = "entry" /\ idx' = idx + 1 /\ ai' = ai
     IN IF CommitsScreen(CurScreen)
          THEN \E k \in PopupChoices, type \in StatusTypes :
                 /\ trace' = trace \o PressEnter \o DismissPopups(k)
                                   \o RaiseForStatus(type)
                 /\ sbar' = type
                 /\ IF type = "E"
                      THEN Raise("SAPStatusBarError") /\ UNCHANGED <<idx, ai>>
                      ELSE cont
          ELSE trace' = trace /\ sbar' = sbar /\ cont
  /\ UNCHANGED <<cfg, connVars, ret, msg, screen_order, processed, ei, attempt, failures,
                 tblVars>>

\* ------------------------------------------------------- GuiTableControl
\* the scroll maxima the grid may report (VerticalScrollbar.Maximum)
MaxScroll == 2
ScrollMaxima == 0..MaxScroll

\* faulty variant of PaginationKey: the page-down key in either mode
PaginationKeyFixed(empty) == "PAGE_DOWN"

\* fill(): pagination_key = VKey.ENTER if is_table_empty else VKey.PAGE_DOWN
PaginationKey(empty) == IF empty THEN "ENTER" ELSE "PAGE_DOWN"

\* fill(): next_row_idx_after_pagination = 1 if is_table_empty else 0
NextRowIdxAfterPagination(empty) ==
  IF empty THEN GrowthResumeRow ELSE OverwriteResumeRow

\* _refresh_table(): find_by_id(self.id); the grid is still on the screen
RefreshTable == << Ev("find", GridId, "found", 0, 0) >>

\* fill(): "if columns and exclude_columns:"
BothColumnLists == tcolumns # <<>> /\ texclude # <<>>

\* faulty variant of NoData: the emptiness test is left out
NoDataNever == FALSE

\* fill(): "if not data:"
NoData == tdata = <<>>

\* faulty variant of ResetScroll: the scroll position is reset in either mode
ResetScrollAlways(empty) == << Ev("scroll_set", "", "", 0, 0) >> \o RefreshTable

\* fill(): "if not is_table_empty:" VerticalScrollbar.Position = 0 and
\* _refresh_table()
ResetScroll(empty) ==
  IF ~ empty THEN << Ev("scroll_set", "", "", 0, 0) >> \o RefreshTable
  ELSE << >>

\* fill(): the two validations, the column map, the visible row count, the
\* scroll maximum and what follows from it, up to the call of _fill_table
fill ==
  /\ pc = "table_start"
  /\ IF BothColumnLists
       THEN Raise("ValueError")
            /\ UNCHANGED <<trace, column_map, visible_rows, is_table_empty,
                           pagination_key, next_row_idx_after_pagination,
                           page, current_row_idx, ri, placed>>
     ELSE IF NoData
       THEN Raise("ValueError")
            /\ UNCHANGED <<trace, column_map, visible_rows, is_table_empty,
                           pagination_key, next_row_idx_after_pagination,
                           page, current_row_idx, ri, placed>>
     ELSE IF _get_column_map(GridColumns, tcolumns, texclude).raised # "none"
       THEN Raise(_get_column_map(GridColumns, tcolumns, texclude).raised)
            /\ UNCHANGED <<trace, column_map, visible_rows, is_table_empty,
                           pagination_key, next_row_idx_after_pagination,
                           page, current_row_idx, ri, placed>>
     ELSE \E maximum \in ScrollMaxima :
            LET empty == (maximum = 0)
            IN /\ column_map' =
                    _get_column_map(GridColumns, tcolumns, texclude).value
               /\ visible_rows' = cfg.VisibleRowCount
               /\ is_table_empty' = empty
               /\ trace' = trace \o
                    << Ev("columns", "", "", 0, 0),
                       Ev("VisibleRowCount", "", "", cfg.VisibleRowCount, 0),
                       Ev("scroll_max", "", "", maximum, 0) >>
                    \o ResetScroll(empty)
               /\ pagination_key' = PaginationKey(empty)
               /\ next_row_idx_after_pagination' =
                    NextRowIdxAfterPagination(empty)
               /\ page' = FirstPage
               /\ current_row_idx' = 0
               /\ ri' = 1
               /\ placed' = <<>>
               /\ pc' = "table_rows"
               /\ err' = err
  /\ UNCHANGED <<cfg, connVars, sbar, ret, msg, runVars, tdata, tcolumns, texclude>>

\* _upate_row_cells: the pairs of column_map, in its order, whose title is
\* a key of the row with a value that is not None
RECURSIVE RowCells(_, _)
RowCells(m, row) ==
  IF m = <<>> THEN <<>>
  ELSE IF Has(row, Head(m)[1]) /\ ~ IsNone(Get(row, Head(m)[1]))
         THEN <<Head(m)>> \o RowCells(Tail(m), row)
         ELSE RowCells(Tail(m), row)

\* faulty variant of CellEvents: the cell is written whether or not it
\* is changeable
RECURSIVE CellEventsWriteAll(_, _, _, _, _)
CellEventsWriteAll(cells, j, row, row_idx, ro) ==
  IF j > Len(cells) THEN <<>>
  ELSE << Ev("GetCell", cells[j][1],
             IF j \in ro THEN "readonly" ELSE "changeable",
             row_idx, cells[j][2]),
          Ev("cell_write", cells[j][1],
             Strip(Str(row[cells[j][1]])), row_idx, cells[j][2]) >>
       \o CellEventsWriteAll(cells, j + 1, row, row_idx, ro)

\* _update_cell, "cell.text = str(value).strip()" on a changeable cell: a
\* combobox cell was wrapped in GuiVComponent and goes through set_text,
\* any other cell is the raw COM object and takes the string as it is
CellText(title, value) ==
  IF cfg.gui.type = "GuiComboBox"
    THEN set_text(cfg.gui, title, Strip(Str(value)))
    ELSE Returns([op |-> "cell_write", text |-> Strip(Str(value))])

\* the first changeable cell of the row, from position j on, whose
\* assignment raises, as what it raises; Returns(<<>>) when none does
RECURSIVE CellsRaise(_, _, _, _)
CellsRaise(cells, j, row, ro) ==
  IF j > Len(cells) THEN Returns(<<>>)
  ELSE IF j \notin ro /\ CellText(cells[j][1], row[cells[j][1]]).raised # "none"
    THEN CellText(cells[j][1], row[cells[j][1]])
  ELSE CellsRaise(cells, j + 1, row, ro)

\* _update_cell for each of these pairs: GetCell(row_idx, col_idx), which
\* gives a cell that is changeable or not, cell.setFocus() when set_focus
\* is true, and cell.text = str(value).strip() when the cell is
\* changeable; an assignment that raises ends the row.  ro is the set of
\* positions in cells whose cell is not changeable
RECURSIVE CellEvents(_, _, _, _, _)
CellEvents(cells, j, row, row_idx, ro) ==
  IF j > Len(cells) THEN <<>>
  ELSE LET result == CellText(cells[j][1], row[cells[j][1]])
       IN << Ev("GetCell", cells[j][1],
                IF j \in ro THEN "readonly" ELSE "changeable",
                row_idx, cells[j][2]) >>
          \o (IF cfg.set_focus
                THEN << Ev("setFocus", cells[j][1], "", row_idx, cells[j][2]) >>
                ELSE <<>>)
          \o (IF j \in ro THEN CellEvents(cells, j + 1, row, row_idx, ro)
              ELSE IF result.raised # "none" THEN <<>>
              ELSE << Ev(result.value.op, cells[j][1], result.value.text,
                         row_idx, cells[j][2]) >>
                   \o CellEvents(cells, j + 1, row, row_idx, ro))

\* which cells of a row the grid may report as not changeable
ReadOnlyChoices(cells) ==
  IF cfg.mixed THEN SUBSET (1..Len(cells)) ELSE {{}}

\* faulty variant of AtLastVisibleRow: the page turns one row late
AtLastVisibleRowLate == current_row_idx = visible_rows

\* _fill_table: "if current_row_idx == self.visible_rows - 1:"
AtLastVisibleRow == current_row_idx = visible_rows - 1

\* faulty variant of NextPage: the page counter is left as it is
NextPageSame(p) == p

\* _fill_table: "page += 1"
NextPage(p) == p + 1

\* faulty variant of PaginateTable: the pagination key is sent twice
PaginateTableKeyTwice(k, w) ==
  << Ev("vkey", pagination_key, "wnd[0]", 0, 1),
     Ev("vkey", pagination_key, "wnd[0]", 0, 1) >>
  \o DismissPopups(k) \o RaiseIfErrorDialog(w)

\* _paginate_table(pagination_key): send_vkey, dismiss_popups,
\* raise_if_error_dialog(SAPTableConfigurationError)
PaginateTable(k, w) ==
  << Ev("vkey", pagination_key, "wnd[0]", 0, 1) >>
  \o DismissPopups(k) \o RaiseIfErrorDialog(w)

\* _fill_table: one iteration of "for row in data": the cells of the row,
\* then either the page turn (_paginate_table: pagination key,
\* dismiss_popups, raise_if_error_dialog; _refresh_table; page += 1; the
\* resume row) or current_row_idx += 1
_fill_table ==
  /\ pc = "table_rows"
  /\ ri <= Len(tdata)
  /\ LET row == tdata[ri]
         cells == RowCells(column_map, row)
     IN \E ro \in ReadOnlyChoices(cells) :
          LET written == trace \o CellEvents(cells, 1, row, current_row_idx, ro)
              raised == CellsRaise(cells, 1, row, ro)
          IN /\ placed' = Append(placed, [rec |-> ri, page |-> page,
                                          row |-> current_row_idx])
             /\ IF raised.raised # "none"
                  THEN /\ trace' = written
                       /\ RaiseMsg(raised.raised, raised.message)
                       /\ UNCHANGED <<page, current_row_idx, ri>>
                ELSE IF AtLastVisibleRow
                  THEN \E k \in PopupChoices, w \in DialogChoices :
                         LET turned == written \o PaginateTable(k, w)
                         IN IF ErrorDialogRaises(w)
                              THEN /\ trace' = turned
                                   /\ Raise("SAPTableConfigurationError")
                                   /\ UNCHANGED <<msg, page, current_row_idx, ri>>
                              ELSE /\ trace' = turned \o RefreshTable
                                   /\ page' = NextPage(page)
                                   /\ current_row_idx' =
                                        next_row_idx_after_pagination
                                   /\ ri' = ri + 1
                                   /\ UNCHANGED <<pc, err, msg>>
                  ELSE /\ trace' = written
                       /\ current_row_idx' = current_row_idx + 1
                       /\ ri' = ri + 1
                       /\ UNCHANGED <<pc, err, msg, page>>
  /\ UNCHANGED <<cfg, connVars, sbar, ret, runVars, tdata, tcolumns, texclude, column_map,
                 visible_rows, is_table_empty, pagination_key,
                 next_row_idx_after_pagination>>

\* faulty variant of FinalCommit: the confirm key is left out
FinalCommitNoKey(k, w) == DismissPopups(k) \o RaiseIfErrorDialog(w)

\* _fill_table, "# Final commit": press_enter(), dismiss_popups(),
\* raise_if_error_dialog(SAPTableConfigurationError)
FinalCommit(k, w) == PressEnter \o DismissPopups(k) \o RaiseIfErrorDialog(w)

\* _fill_table after its loop: the final commit (press_enter,
\* dismiss_popups, raise_if_error_dialog), and the return: into
\* _fill_screen, which marks the element, or to the caller of fill()
_fill_table_commit ==
  /\ pc = "table_rows"
  /\ ri > Len(tdata)
  /\ \E k \in PopupChoices, w \in DialogChoices, type \in StatusTypes :
       /\ trace' = trace \o FinalCommit(k, w)
       /\ sbar' = type
       /\ IF ErrorDialogRaises(w)
            THEN Raise("SAPTableConfigurationError")
                 /\ UNCHANGED <<processed, ei>>
          ELSE IF cfg.kind = "run"
            THEN /\ processed' = processed \cup {CurElement.name}
                 /\ ei' = ei + 1
                 /\ pc' = "fill"
                 /\ err' = err
            ELSE pc' = "done" /\ UNCHANGED <<err, processed, ei>>
  /\ UNCHANGED <<cfg, connVars, ret, msg, screen_order, idx, ai, attempt, failures, tblVars>>

\* ---------------------------------------- SAPGuiEngine called directly
\* SAPGuiEngine.start_transaction(tcode): session.StartTransaction, then the
\* status bar is read; a text containing "does not exist" raises
start_transaction ==
  /\ pc = "start_transaction"
  /\ \E text \in StatusTexts :
       /\ trace' = trace \o << Ev("start_transaction", cfg.tcode, "", 0, 0),
                                Ev("statusbar", text, "", 0, 0) >>
       /\ IF TCodeInvalid(text)
            THEN /\ RaiseMsg("SAPTransactionError",
                             TransactionFailed(cfg.tcode, text))
                 /\ ret' = ret
            ELSE /\ pc' = "done"
                 /\ ret' = StartTransactionResult
                 /\ UNCHANGED <<err, msg>>
  /\ UNCHANGED <<cfg, connVars, sbar, runVars, tblVars>>

\* LoginElements: the ids of the two fields of the login screen
LoginUsername == "wnd[0]/usr/txtRSYST-BNAME"
LoginPassword == "wnd[0]/usr/pwdRSYST-BCODE"
\* ControlID.TERMINATE_OTHER_SESSIONS_RADIO
TerminateRadio == "wnd[1]/usr/radMULTI_LOGON_OPT1"

\* the status bar texts a login attempt may leave
LoginTexts ==
  {"", "User X is already logged on", "USER X IS ALREADY LOGGED ON",
   "Name or password is incorrect"}

\* find_by_id: "The element with ID: {id} was not found."
ElementNotFound(id) ==
  Raises("SAPElementNotFound",
         << "The element with ID: ", id, " was not found." >>)

\* send_vkey: "Window {wnd_id} not found to send key."
WindowNotFound(wnd) ==
  Raises("SAPElementNotFound", << "Window ", wnd, " not found to send key." >>)

\* "field.text = value" on a login field that was found: set_text raises
\* when the field is not changeable and otherwise assigns what it makes of
\* the value
LoginWrite(id, value, changeable) ==
  IF ~ changeable THEN NotChangeable(cfg.gui, id)
  ELSE set_text(cfg.gui, id, value)

\* the driver calls of such an assignment
LoginWriteEvents(id, value, changeable) ==
  << Ev("find", id, "found", 0, 0) >>
  \o (IF ~ changeable THEN << Ev("write_fail", id, Strip(Str(value)), 0, 0) >>
      ELSE IF LoginWrite(id, value, changeable).raised # "none" THEN <<>>
      ELSE << Ev(LoginWrite(id, value, changeable).value.op, id,
                 LoginWrite(id, value, changeable).value.text, 0, 0) >>)

\* login() up to press_enter(): without the user field the login screen is
\* taken to be absent and login returns True; otherwise both fields are
\* written through set_text (the password field must be there) and ENTER
\* is sent
login ==
  /\ pc = "login"
  /\ \E user_field \in BOOLEAN, password_field \in BOOLEAN,
        user_changeable \in BOOLEAN, password_changeable \in BOOLEAN :
       LET user == LoginWrite(LoginUsername, cfg.username, user_changeable)
           password == LoginWrite(LoginPassword, cfg.password,
                                  password_changeable)
           user_events == LoginWriteEvents(LoginUsername, cfg.username,
                                           user_changeable)
           password_events == LoginWriteEvents(LoginPassword, cfg.password,
                                               password_changeable)
       IN IF ~ user_field
            THEN /\ trace' = trace \o
                      << Ev("find", LoginUsername, "missing", 0, 0) >>
                 /\ pc' = "done"
                 /\ ret' = "True"
                 /\ UNCHANGED <<err, msg>>
          ELSE IF user.raised # "none"
            THEN /\ trace' = trace \o user_events
                 /\ RaiseMsg(user.raised, user.message)
                 /\ ret' = ret
          ELSE IF ~ password_field
            THEN /\ trace' = trace \o user_events \o
                      << Ev("find", LoginPassword, "missing", 0, 0) >>
                 /\ RaiseMsg(ElementNotFound(LoginPassword).raised,
                             ElementNotFound(LoginPassword).message)
                 /\ ret' = ret
          ELSE IF password.raised # "none"
            THEN /\ trace' = trace \o user_events \o password_events
                 /\ RaiseMsg(password.raised, password.message)
                 /\ ret' = ret
          ELSE /\ trace' = trace \o user_events \o password_events
                      \o PressEnter
               /\ pc' = "login_status"
               /\ UNCHANGED <<err, msg, ret>>
  /\ UNCHANGED <<cfg, connVars, sbar, runVars, tblVars>>

\* faulty variant of MultiLogon: the multi-logon text is never recognised
MultiLogonNever(text) == FALSE

\* login(): '"already logged on" in (status["text"] or "").lower()'
MultiLogon(text) == Contains("already logged on", LowerText(text))

\* login(): raise_for_status(SAPLoginError, "Login failed"), then the
\* multi-logon test: refused when terminate_other_sessions is false
login_status ==
  /\ pc = "login_status"
  /\ \E type \in StatusTypes, text \in LoginTexts :
       /\ trace' = trace \o << Ev("status", type, text, 0, 0) >>
       /\ sbar' = type
       /\ IF type = "E"
            THEN RaiseMsg("SAPLoginError", << "Login failed", ": ", text >>)
          ELSE IF MultiLogon(text) /\ ~ cfg.terminate_other_sessions
            THEN RaiseMsg("SAPLoginError",
                          << "User already logged on in some other session." >>)
          ELSE IF MultiLogon(text)
            THEN pc' = "login_terminate" /\ UNCHANGED <<err, msg>>
          ELSE pc' = "login_popups" /\ UNCHANGED <<err, msg>>
  /\ UNCHANGED <<cfg, connVars, ret, runVars, tblVars>>

\* login(), "Terminating other sessions": the radio button is looked up
\* and selected when found, and ENTER goes to window 1; any exception in
\* that (select() failing, window 1 gone) leads to one more ENTER on
\* window 1, which raises SAPElementNotFound when the window is not there
login_terminate ==
  /\ pc = "login_terminate"
  /\ \E rb \in BOOLEAN, selected \in BOOLEAN, wnd_try \in BOOLEAN,
        wnd_except \in BOOLEAN :
       LET lookup == << Ev("find", TerminateRadio,
                           IF rb THEN "found" ELSE "missing", 0, 0) >>
           select == IF rb THEN << Ev("select", TerminateRadio, "", 0, 0) >>
                     ELSE << >>
           key == SendVKey("ENTER", "wnd[1]")
           failed == (rb /\ ~ selected) \/ ~ wnd_try
       IN /\ (~ rb => selected)
          /\ (rb /\ ~ selected => wnd_try)
          /\ (~ failed => wnd_except)
          /\ IF ~ failed
               THEN /\ trace' = trace \o lookup \o select \o key
                    /\ pc' = "login_popups"
                    /\ UNCHANGED <<err, msg>>
             ELSE IF wnd_except
               THEN /\ trace' = trace \o lookup \o select \o key
                    /\ pc' = "login_popups"
                    /\ UNCHANGED <<err, msg>>
             ELSE /\ trace' = trace \o lookup \o select
                  /\ RaiseMsg(WindowNotFound("wnd[1]").raised,
                              WindowNotFound("wnd[1]").message)
  /\ UNCHANGED <<cfg, connVars, sbar, ret, runVars, tblVars>>

\* login(): dismiss_popups(), return True
login_popups ==
  /\ pc = "login_popups"
  /\ \E k \in PopupChoices :
       trace' = trace \o DismissPopups(k)
  /\ pc' = "done"
  /\ ret' = "True"
  /\ UNCHANGED <<cfg, connVars, sbar, err, msg, runVars, tblVars>>

\* ----------------------------------------------------------------- inputs
\* most records given to one direct fill() call
MaxRecords == 7
\* largest VisibleRowCount of the grid in a direct fill() call
MaxVisible == 5

\* data
Dict(recs) == [isList |-> FALSE, recs |-> recs]
List(recs) == [isList |-> TRUE, recs |-> recs]
dataA == Dict(<< ("A" :> "x") >>)
dataAB == Dict(<< ("A" :> " 10 ") @@ ("B" :> "zero") >>)
dataAG == Dict(<< ("A" :> "x") @@ ("G" :> "x") >>)
dataBY == Dict(<< ("B" :> "y") >>)
dataFalsy == Dict(<< ("A" :> "") @@ ("B" :> "zero") @@ ("F" :> "x") >>)
dataRows == List(<< ("A" :> "x") @@ ("item" :> "10"),
                    ("item" :> " 10 ") @@ ("qty" :> "None"),
                    ("Item" :> "x") @@ ("qty" :> "zero") >>)
dataNoRows == List(<< >>)
dataDate == Dict(<< ("A" :> "date(2024, 1, 2)") >>)

NoScreenData == [k \in {} |-> EmptyDict]
screenDataHeader == (<<"Header">> :> (("B" :> "y"))) @@ (<<"Extra">> :> EmptyDict)

\* raw screen orders
sHeader == RawStr(<<"Header">>)
sItems == RawStr(<<"Items">>)
sExtra == RawStr(<<"Extra">>)
dItems == RawDict(<<"Items">>, TableColumns(<< <<"T", <<"Item">> >> >>))
dItemsAll == RawDict(<<"Items">>, TableColumns(<< >>))
sActionClick == RawStr(<<"ACTION", "CLICK", "wnd[0]/tbar[1]/btn[5]">>)
sActionBack == RawStr(<<"ACTION", "BACK">>)
sActionEnter == RawStr(<<"ACTION", "PRESS", "ENTER">>)

\* the scenario of the specification:
\* ["Header", "ACTION_CLICK_wnd[0]/tbar[1]/btn[5]", "Items"]
ScenarioOrder == Order(<< sHeader, sActionClick, sItems >>)

RunCfg(order, data, screen_data, v, popups, mixed) ==
  [kind |-> "run", tcode |-> "va01", data |-> data, screen_order |-> order,
   screen_data |-> screen_data, VisibleRowCount |-> v,
   popups |-> popups, mixed |-> mixed,
   columns |-> <<>>, exclude_columns |-> <<>>,
   gui |-> guiText, set_focus |-> FALSE]

\* the same arguments on a screen whose widgets are as gui says
WithGui(c, gui) == [c EXCEPT !.gui = gui]

RunConfigs ==
  { RunCfg(ScenarioOrder, dataRows, NoScreenData, 2, FALSE, FALSE),
    RunCfg(Order(<< sHeader, sActionBack, dItems >>), dataRows,
           NoScreenData, 2, FALSE, FALSE),
    RunCfg(Order(<< sHeader, sActionEnter, sExtra >>), dataA,
           NoScreenData, 2, TRUE, FALSE),
    RunCfg(Order(<< sHeader, sHeader, sExtra >>), dataA,
           NoScreenData, 2, FALSE, FALSE),
    RunCfg(Order(<< sExtra, sHeader, sExtra >>), dataAB,
           NoScreenData, 2, FALSE, FALSE),
    RunCfg(Order(<< sHeader, sExtra, RawStr(<<"Keys">>) >>), dataFalsy,
           NoScreenData, 2, FALSE, FALSE),
    RunCfg(Order(<< sHeader, sExtra >>), dataFalsy,
           screenDataHeader, 2, FALSE, FALSE),
    RunCfg(Order(<< RawStr(<<"Broken">>), sHeader >>), dataAB,
           NoScreenData, 2, FALSE, FALSE),
    RunCfg(Order(<< sExtra, RawStr(<<"Missing">>), sHeader >>), dataA,
           NoScreenData, 2, FALSE, FALSE),
    RunCfg(Order(<< RawStr(<<"NoFunc">>), sHeader >>), dataAG,
           NoScreenData, 2, FALSE, FALSE),
    RunCfg(Order(<< RawStr(<<"Keys">>), sHeader >>), dataAB,
           NoScreenData, 2, FALSE, FALSE),
    RunCfg(Order(<< sExtra, RawStr(<<"Keys">>), sHeader >>), dataBY,
           NoScreenData, 2, FALSE, FALSE),
    RunCfg(Order(<< RawStr(<<"Target">>), sHeader >>), dataA,
           NoScreenData, 2, FALSE, FALSE),
    RunCfg(Order(<< sItems, sHeader >>), dataRows,
           NoScreenData, 2, FALSE, FALSE),
    RunCfg(Order(<< dItemsAll, sHeader >>), dataRows,
           NoScreenData, 3, FALSE, FALSE),
    RunCfg(Order(<< dItemsAll >>), dataRows,
           NoScreenData, 2, TRUE, FALSE),
    RunCfg(Order(<< dItems >>), dataNoRows, NoScreenData, 2, FALSE, FALSE),
    RunCfg(Order(<< >>), dataA, NoScreenData, 2, FALSE, FALSE),
    RunCfg(Order(<< RawOther, sExtra >>), dataA, NoScreenData, 2, FALSE, FALSE),
    RunCfg(NoOrder, dataA, NoScreenData, 2, FALSE, FALSE),
    WithGui(RunCfg(Order(<< sHeader >>), dataAB, NoScreenData, 2, FALSE, FALSE),
            guiShort),
    WithGui(RunCfg(Order(<< sHeader >>), dataA, NoScreenData, 2, FALSE, FALSE),
            guiCombo),
    WithGui(RunCfg(Order(<< sHeader >>), dataAB, NoScreenData, 2, FALSE, FALSE),
            guiCombo),
    WithGui(RunCfg(Order(<< dItemsAll, sHeader >>), dataRows, NoScreenData, 2,
                   FALSE, FALSE), guiCombo),
    RunCfg(Order(<< sHeader >>), dataDate, NoScreenData, 2, FALSE, FALSE) }

\* the records of a direct fill() call
FillRecord(i) ==
  CASE i % 3 = 1 -> ("item" :> "10") @@ ("qty" :> " 10 ")
    [] i % 3 = 2 -> ("item" :> "None") @@ ("qty" :> "zero")
    [] OTHER -> ("Item" :> "10") @@ ("qty" :> "x")
FillData(n) == [i \in 1..n |-> FillRecord(i)]

FillCfg(n, v, columns, exclude_columns, popups, mixed) ==
  [kind |-> "fill", tcode |-> "", data |-> List(FillData(n)),
   screen_order |-> NoOrder,
   screen_data |-> NoScreenData, VisibleRowCount |-> v,
   popups |-> popups, mixed |-> mixed,
   columns |-> columns, exclude_columns |-> exclude_columns,
   gui |-> guiText, set_focus |-> FALSE]

\* the same arguments with set_focus=True
WithFocus(c) == [c EXCEPT !.set_focus = TRUE]

FillConfigs ==
  { FillCfg(n, v, c, x, FALSE, FALSE) :
      n \in 0..MaxRecords, v \in 1..MaxVisible,
      c \in {<<>>, <<"Item">>}, x \in {<<>>, <<"QTY">>} }
  \cup { FillCfg(3, 2, <<>>, <<>>, TRUE, TRUE),
         FillCfg(3, 2, <<"Item ">>, <<>>, FALSE, FALSE),
         FillCfg(3, 2, <<>>, <<"Item ">>, FALSE, FALSE),
         WithFocus(FillCfg(3, 2, <<>>, <<>>, FALSE, FALSE)),
         WithFocus(FillCfg(3, 2, <<>>, <<>>, FALSE, TRUE)),
         WithGui(FillCfg(1, 2, <<>>, <<>>, FALSE, FALSE), guiCombo),
         WithGui(FillCfg(3, 2, <<>>, <<>>, FALSE, TRUE), guiCombo),
         WithGui(FillCfg(3, 2, <<"Item">>, <<>>, FALSE, FALSE), guiCombo) }

\* ---------------------------------------------------------- specifications
\* the descriptions of the connections SAP Logon knows, and the names
\* open_connection is called with
ConnDescriptions == {"DEV", "QAS"}
ConnectionNames == {" dev ", "QAS"}

\* _find_existing_connection: str(...).strip().lower() of a description or
\* of a connection name
NormName(s) ==
  CASE s \in {"DEV", " dev "} -> "dev"
    [] s = "QAS" -> "qas"

\* the entry of SAP Logon that OpenConnection(name) opens
DescriptionOf(name) ==
  CHOOSE d \in ConnDescriptions : NormName(d) = NormName(name)

\* conn.Children(0), the first session of a connection, and the
\* connection a session belongs to
FirstSession(conn) ==
  CASE conn = "DEV" -> "DEV/ses[0]"
    [] conn = "QAS" -> "QAS/ses[0]"
ParentOf(ses) ==
  CASE ses = "DEV/ses[0]" -> "DEV"
    [] ses = "QAS/ses[0]" -> "QAS"

\* the connections open in SAP GUI when the manager is made
OpenAtStart ==
  IF cfg.kind = "conn" THEN SUBSET ConnDescriptions ELSE {{}}

InitCommon ==
  /\ screen_order = <<>>
  /\ processed = {}
  /\ idx = 0
  /\ ai = 1
  /\ ei = 1
  /\ attempt = 1
  /\ err = "none"
  /\ trace = <<>>
  /\ failures = 0
  /\ column_map = <<>>
  /\ visible_rows = 0
  /\ is_table_empty = FALSE
  /\ pagination_key = ""
  /\ next_row_idx_after_pagination = 0
  /\ page = 0
  /\ current_row_idx = 0
  /\ ri = 0
  /\ placed = <<>>
  /\ sbar = "S"
  /\ ret = "unset"
  /\ msg = <<>>
  /\ _app = "None"
  /\ _connection = "None"
  /\ _session = "None"
  /\ children \in OpenAtStart

\* a TransactionRunner about to be constructed
Init ==
  /\ cfg \in RunConfigs
  /\ pc = "init"
  /\ tdata = <<>>
  /\ tcolumns = <<>>
  /\ texclude = <<>>
  /\ InitCommon

Next ==
  \/ __init__
  \/ run
  \/ run_return
  \/ _process_screen
  \/ _execute_actions
  \/ _fill_screen_skip
  \/ _fill_text
  \/ _fill_screen_callable
  \/ _fill_screen_table
  \/ _fill_screen_unknown
  \/ _fill_screen_commit
  \/ fill
  \/ _fill_table
  \/ _fill_table_commit

Spec == Init /\ [][Next]_vars

\* run() is sequential code: as long as every driver call returns, the
\* statement it has reached is executed
SpecLive == Init /\ [][Next]_vars /\ WF_vars(Next)

\* a located GuiTableControl on which fill() is called directly
InitFill ==
  /\ cfg \in FillConfigs
  /\ pc = "table_start"
  /\ tdata = cfg.data.recs
  /\ tcolumns = cfg.columns
  /\ texclude = cfg.exclude_columns
  /\ InitCommon

NextFill ==
  \/ fill
  \/ _fill_table
  \/ _fill_table_commit

SpecFill == InitFill /\ [][NextFill]_vars

\* engine methods called directly
EngineCfg(kind, tcode, username, terminate, popups) ==
  [kind |-> kind, tcode |-> tcode, username |-> username,
   password |-> "secret", terminate_other_sessions |-> terminate,
   popups |-> popups, gui |-> guiText]

EngineConfigs ==
  { EngineCfg("start_transaction", t, "", TRUE, FALSE) :
      t \in {"va01", "invalid_tcode"} }
  \cup { EngineCfg("login", "", u, t, p) :
           u \in {"user", "invalid"}, t \in BOOLEAN, p \in BOOLEAN }
  \cup { EngineCfg("login", "", " 10 ", TRUE, FALSE),
         WithGui(EngineCfg("login", "", "user", TRUE, FALSE), guiShort3),
         WithGui(EngineCfg("login", "", "user", TRUE, FALSE), guiCombo) }

\* a connected SAPGuiEngine on which one method is called
InitEngine ==
  /\ cfg \in EngineConfigs
  /\ pc = cfg.kind
  /\ tdata = <<>>
  /\ tcolumns = <<>>
  /\ texclude = <<>>
  /\ InitCommon

NextEngine ==
  \/ start_transaction
  \/ login
  \/ login_status
  \/ login_terminate
  \/ login_popups

SpecEngine == InitEngine /\ [][NextEngine]_vars

\* ------------------------------------------------- SAPConnectionManager
\* the number of calls made on one SAPConnectionManager
MaxCalls == 4

\* the session property: "if not self._session: raise SAPError(...)"
SessionProperty == IF _session = "None" THEN "SAPError" ELSE _session

\* a call of the manager that returned, or raised SAPError
Called(op, name, outcome) == trace' = Append(trace, Ev(op, name, outcome, 0, 0))

\* reading the session property
session ==
  /\ pc = "conn"
  /\ Len(trace) < MaxCalls
  /\ Called("session", "", SessionProperty)
  /\ UNCHANGED <<cfg, connVars, pc, err, sbar, ret, msg, runVars, tblVars>>

\* how _find_existing_connection ends at a connection of that description:
\* it attaches to it, or app.Children(i) or conn.Description raises before
\* anything is assigned, or conn.Children(0) raises after _connection was
\* assigned; the exception is swallowed and the result is False
FindOutcomes == {"attached", "scan_raised", "session_raised"}

\* open_connection(connection_name): _connect_to_engine when there is no
\* _app (GetObject may fail); _find_existing_connection over the open
\* connections, which assigns _connection only when it has found the
\* description, before it asks for conn.Children(0), and swallows every
\* exception of its loop; else _open_new_connection, which assigns
\* _connection when OpenConnection has returned, before Children(0) is
\* called, and raises SAPError when either call fails.  children holds
\* the descriptions of the open connections.
open_connection ==
  /\ pc = "conn"
  /\ Len(trace) < MaxCalls
  /\ \E name \in ConnectionNames, engine_ok \in BOOLEAN, find \in FindOutcomes,
        open_ok \in BOOLEAN, new_ok \in BOOLEAN :
       LET conn == DescriptionOf(name)
           existing == \E c \in children : NormName(c) = NormName(name)
           assigned == existing /\ find = "session_raised"
       IN IF _app = "None" /\ ~ engine_ok
            THEN /\ Called("open_connection", name, "SAPError")
                 /\ UNCHANGED connVars
          ELSE /\ _app' = "engine"
               /\ IF existing /\ find = "attached"
                    THEN /\ _connection' = conn
                         /\ _session' = FirstSession(conn)
                         /\ children' = children
                         /\ Called("open_connection", name, "returned")
                  ELSE IF ~ open_ok
                    THEN /\ _connection' = IF assigned THEN conn
                                                       ELSE _connection
                         /\ UNCHANGED <<_session, children>>
                         /\ Called("open_connection", name, "SAPError")
                  ELSE /\ _connection' = conn
                       /\ children' = children \cup {conn}
                       /\ IF new_ok
                            THEN /\ _session' = FirstSession(conn)
                                 /\ Called("open_connection", name, "returned")
                            ELSE /\ _session' = _session
                                 /\ Called("open_connection", name, "SAPError")
  /\ UNCHANGED <<cfg, pc, err, sbar, ret, msg, runVars, tblVars>>

\* close_session(): session_id is bound only when there is a session;
\* with a connection CloseSession(session_id) is called and, when that
\* returns, _connection is set to None; then _app is set to None.
\* _session is left as it is.
close_session ==
  /\ pc = "conn"
  /\ Len(trace) < MaxCalls
  /\ \E close_ok \in BOOLEAN :
       IF _connection # "None"
         THEN IF _session = "None" \/ ~ close_ok
                THEN /\ Called("close_session", "", "SAPError")
                     /\ UNCHANGED connVars
                ELSE /\ _connection' = "None"
                     /\ _app' = "None"
                     /\ children' = children \ {ParentOf(_session)}
                     /\ Called("close_session", "", "returned")
                     /\ UNCHANGED _session
         ELSE /\ _app' = "None"
              /\ Called("close_session", "", "returned")
              /\ UNCHANGED <<_connection, _session, children>>
  /\ UNCHANGED <<cfg, pc, err, sbar, ret, msg, runVars, tblVars>>

\* close_connection(): with a connection, CloseConnection() is called, an
\* exception of it is logged, and _connection and _session are set to
\* None; without a connection nothing is done
close_connection ==
  /\ pc = "conn"
  /\ Len(trace) < MaxCalls
  /\ \E close_ok \in BOOLEAN :
       IF _connection # "None"
         THEN /\ _connection' = "None"
              /\ _session' = "None"
              /\ children' = IF close_ok THEN children \ {_connection}
                                         ELSE children
              /\ UNCHANGED _app
         ELSE UNCHANGED connVars
  /\ Called("close_connection", "", "returned")
  /\ UNCHANGED <<cfg, pc, err, sbar, ret, msg, runVars, tblVars>>

\* a new SAPConnectionManager on which the methods are called in any order
InitConn ==
  /\ cfg = [kind |-> "conn", popups |-> FALSE]
  /\ pc = "conn"
  /\ tdata = <<>>
  /\ tcolumns = <<>>
  /\ texclude = <<>>
  /\ InitCommon

NextConn ==
  \/ session
  \/ open_connection
  \/ close_session
  \/ close_connection

SpecConn == InitConn /\ [][NextConn]_vars

\* a TransactionRunner whose run() may be called again after it returned
NextTwice ==
  \/ Next
  \/ run_again

SpecTwice == Init /\ [][NextTwice]_vars

TypeOK ==
  /\ pc \in {"init", "ready", "entry", "bare", "on_entry", "on_exit", "fill",
              "table_start", "table_rows", "done", "raised",
              "start_transaction", "login", "login_status",
              "login_terminate", "login_popups", "conn"}
  /\ (pc = "raised") = (err # "none")
  /\ attempt \in 1..MaxAttempts
  /\ failures \in 0..MaxWriteFailures
  /\ sbar \in StatusTypes
  /\ ret \in {"unset", "None", "True"}

\* ------------------------------------------------------ reading the trace
Terminated == pc \in {"done", "raised"}
TraceIdx == 1..Len(trace)
Last == trace[Len(trace)]

\* the events that put a value into a text element, and into a table
\* cell: an assignment of the text, or the selection of a combobox entry
\* by its key
TextWriteOps == {"write", "combo_key"}
CellWriteOps == {"cell_write", "combo_key"}
IsTextWrite(e) == e.site = "element" /\ e.op \in TextWriteOps
IsCellWrite(e) == e.site = "table_row" /\ e.op \in CellWriteOps

\* the errors a write attempt of set_text raises
WriteErrors == {"SAPElementNotChangeable", "ComboBoxOptionNotFound"}

\* the run has raised the error of an exhausted write retry: the last
\* driver call is the confirm key sent after the failed attempt
WriteRetryExhausted ==
  /\ err \in WriteErrors
  /\ trace # <<>> /\ Last.site = "element"

\* the fill has raised the error of a cell assignment
CellWriteRaised ==
  /\ err \in WriteErrors
  /\ trace # <<>> /\ Last.site = "table_row"

\* the events of screen-order entry e, and those made at one of sites
EntEvents(e) == {i \in TraceIdx : trace[i].ent = e}
SiteEvents(e, sites) == {i \in EntEvents(e) : trace[i].site \in sites}
FillSites == {"element", "table_fill", "table_row", "table_commit"}

\* errors that start in the SAP GUI's answers, not in the configuration
DriverErrors ==
  {"SAPTransactionError", "SAPStatusBarError", "SAPElementNotChangeable",
   "SAPTableConfigurationError", "SAPElementNotFound", "UserFunctionError",
   "ComboBoxOptionNotFound"}

\* the screen that entry e of the resolved order names, when it names one
IsScreenEntry(e) ==
  /\ e \in 1..Len(screen_order)
  /\ screen_order[e].kind = "screen"
  /\ ScreenMapGet(screen_order[e].name) # {}
ScreenOf(e) == CHOOSE sc \in ScreenMapGet(screen_order[e].name) : TRUE

\* ----------------------------------------------------------------- claims
\* the first two parts of C1, on every order the constructor resolves
RunOrderInv ==
  /\ \A i \in TraceIdx : (trace[i].op = "start_transaction") = (i = 1)
  /\ \A i, j \in TraceIdx : i < j => trace[i].ent <= trace[j].ent

\* C1: run() calls start_transaction exactly once and first, the driver
\* calls of entry i all precede those of entry i+1, and for the order
\* [Header, click action, Items] the run is Header fill and commit, then
\* the click, then Items fill and commit, unless the SAP GUI itself answers
\* with an error on the way.
C1_ScenarioRunsInOrder ==
  /\ RunOrderInv
  /\ (cfg.screen_order = ScenarioOrder /\ Terminated) =>
       \/ err \in DriverErrors
       \/ /\ pc = "done"
          /\ SiteEvents(1, {"commit"}) # {}
          /\ \E i \in SiteEvents(2, {"bare"}) :
                trace[i].a = "wnd[0]/tbar[1]/btn[5]"
          /\ SiteEvents(3, {"commit"}) # {}

\* an event that performs a fill: a text write that succeeded, a callable
\* invocation, the start of a table fill
IsFill(e) ==
  \/ IsTextWrite(e)
  \/ e.op = "call"
  \/ e.op = "columns" /\ e.site = "table_fill"

\* C2: in one run at most one fill is performed under an element name:
\* after a fill under a name, the only driver calls made for an element of
\* that name are those of the same element finishing its fill (a table's
\* rows and commit); every later element of that name makes none.
C2_FilledAtMostOnce ==
  \A i, j \in TraceIdx :
     (i < j /\ IsFill(trace[i]) /\ trace[j].el = trace[i].el) =>
        /\ ~ IsFill(trace[j])
        /\ trace[j].ent = trace[i].ent
        /\ trace[j].pos = trace[i].pos
        /\ trace[i].op = "columns"

\* A is written on the first screen and the second screen, which lists A
\* first, went past it to write B
C2_Witness ==
  /\ \E i \in TraceIdx :
        trace[i].op = "write" /\ trace[i].el = "A" /\ trace[i].ent = 1
  /\ \E j \in TraceIdx :
        /\ trace[j].op = "write" /\ trace[j].el = "B" /\ trace[j].ent = 2
        /\ trace[j].pos = 2
        /\ ScreenOf(2).elements[1].name = "A"

\* what the trace ends with when the program has raised e
RaisedAtOrigin ==
  CASE err = "SAPStatusBarError" ->
         Last.op = "status" /\ Last.a = "E" /\ Last.site = "commit"
    [] err = "SAPTableConfigurationError" ->
         Last.op = "error_dialog" /\ Last.a = "modal"
    [] err = "SAPElementNotChangeable" ->
         /\ Last = [trace[Len(trace) - 1] EXCEPT
                      !.op = "vkey", !.a = "ENTER", !.b = "wnd[0]", !.n = 0]
         /\ trace[Len(trace) - 1].op = "write_fail"
    [] err = "ComboBoxOptionNotFound" ->
         \/ /\ WriteRetryExhausted
            /\ Last.op = "vkey" /\ Last.a = "ENTER" /\ Last.b = "wnd[0]"
            /\ trace[Len(trace) - 1].op = "find"
            /\ trace[Len(trace) - 1].b = "found"
         \/ /\ CellWriteRaised
            /\ Last.op \in {"GetCell", "setFocus"}
            /\ \E i \in {Len(trace) - 1, Len(trace)} :
                  /\ i >= 1
                  /\ trace[i].op = "GetCell" /\ trace[i].b = "changeable"
                  /\ trace[i].n = Last.n /\ trace[i].m = Last.m
    [] err = "SAPElementNotFound" -> Last.op = "find" /\ Last.b = "missing"
    [] err = "SAPTransactionError" -> Last.op = "statusbar"
    [] err = "UserFunctionError" -> Last.op = "call" /\ Last.b = "raised"
    [] err \in {"ScreenMappingError", "ElementConfigurationError",
                "ActionConfigurationError", "AttributeError", "ValueError"} ->
         pc = "raised"
    [] err \in {"TypeError", "IndexError"} -> trace = <<>>
    [] OTHER -> FALSE

\* C3: an error raised while an entry is processed ends run() with that
\* error: the program is in its raised state with the error of the place
\* that raised it, no later entry is processed and no further driver call
\* is made.
C3_ErrorEndsRun ==
  /\ [](err # "none" => pc = "raised" /\ RaisedAtOrigin)
  /\ [][pc = "raised" => pc' = "raised" /\ err' = err /\ trace' = trace
                          /\ idx' = idx /\ processed' = processed]_vars
  /\ [][err' # "none" => err' = err \/ err = "none"]_vars

\* a status-bar error on the second screen, after the first was committed
\* and with a third entry still to come
C3_Witness ==
  /\ pc = "raised"
  /\ err = "SAPStatusBarError"
  /\ idx = 2
  /\ Len(screen_order) = 3
  /\ \E i \in SiteEvents(1, {"commit"}) : trace[i].op = "status"

\* the least and the greatest of a non-empty set of trace positions
MinOf(S) == CHOOSE x \in S : \A y \in S : x <= y
MaxOf(S) == CHOOSE x \in S : \A y \in S : x >= y

\* the record whose scalar fields entry e is filled from
EntryData(e) == _get_data_for_screen(ScreenOf(e)).current_data

\* the screen of entry e has a TABLE element
EntryHasTable(e) ==
  \E k \in 1..Len(ScreenOf(e).elements) : ScreenOf(e).elements[k].type = "table"

\* a value that is there and is not empty: not None, not the empty string
NonEmpty(v) == v \notin {"None", ""}

\* the fill step of entry e has returned
FillReturned(e) == idx > e \/ (idx = e /\ pc = "on_exit")

\* the screen of entry e was entered: not passed over for lack of data
EntryEntered(e) ==
  \/ EntryHasTable(e)
  \/ \E k \in 1..Len(ScreenOf(e).elements) :
        Truthy(Get(EntryData(e), ScreenOf(e).elements[k].name))

\* C4: the commit sequence of a screen is performed if and only if its
\* press_enter flag is set.  With the flag, once the fill step of the
\* screen has returned, the trace holds for it, after all its element
\* events and before its exit actions, the confirm key on the main window,
\* then dismiss_popups with one ENTER per popup, then the status check, in
\* one block, and a status of type E is the last event and has raised.
\* Without the flag there is no commit event and no status check for it.
C4_CommitIffPressEnter ==
  \A e \in 1..Len(screen_order) : IsScreenEntry(e) =>
    LET c == SiteEvents(e, {"commit"})
        first == MinOf(c)
        last == MaxOf(c)
    IN /\ ~ ScreenOf(e).press_enter =>
            c = {} /\ \A i \in EntEvents(e) : trace[i].op # "status"
       /\ (ScreenOf(e).press_enter /\ FillReturned(e) /\ EntryEntered(e)) =>
            c # {}
       /\ c # {} =>
            /\ c = first..last
            /\ trace[first].op = "vkey" /\ trace[first].a = "ENTER"
            /\ trace[first].b = "wnd[0]"
            /\ trace[first + 1].op = "dismiss_popups"
            /\ last = first + 2 + trace[first + 1].n
            /\ \A i \in (first + 2)..(last - 1) :
                  /\ trace[i].op = "vkey" /\ trace[i].a = "ENTER"
                  /\ trace[i].b = "wnd[1]"
            /\ trace[last].op = "status"
            /\ \A i \in SiteEvents(e, FillSites) : i < first
            /\ \A i \in SiteEvents(e, {"on_exit"}) : i > last
            /\ (trace[last].a = "E") =
                 (err = "SAPStatusBarError" /\ idx = e /\ last = Len(trace))

\* the run is over, a screen without the flag was filled by its callable,
\* and a screen with the flag was committed through one popup
C4_Witness ==
  /\ pc = "done"
  /\ \E e \in 1..Len(screen_order) :
        /\ IsScreenEntry(e) /\ ~ ScreenOf(e).press_enter
        /\ \E i \in EntEvents(e) : trace[i].op = "call"
  /\ \E e \in 1..Len(screen_order) :
        /\ IsScreenEntry(e) /\ ScreenOf(e).press_enter
        /\ \E i \in SiteEvents(e, {"commit"}) :
              trace[i].op = "dismiss_popups" /\ trace[i].n = 1

\* C5: when _process_screen takes up a screen entry, the screen is passed
\* over (next entry, no driver call, processed names unchanged) exactly when
\* it has no TABLE element and the data selected for it holds no non-empty
\* value for any of its elements; otherwise its processing begins.
C5_SkippedExactlyWhenNoData ==
  [][(pc = "entry" /\ IsScreenEntry(idx)) =>
       ((/\ pc' = "entry" /\ idx' = idx + 1
         /\ trace' = trace /\ processed' = processed)
        <=>
        (/\ ~ EntryHasTable(idx)
         /\ \A k \in 1..Len(ScreenOf(idx).elements) :
               ~ NonEmpty(Get(EntryData(idx), ScreenOf(idx).elements[k].name))))
    ]_vars

\* the order of the steps of _process_screen for one screen
SiteRank(site) ==
  CASE site = "on_entry" -> 1
    [] site \in FillSites -> 2
    [] site = "commit" -> 3
    [] site = "on_exit" -> 4
    [] OTHER -> 0

\* errors that only the fill step of a screen (its commit included) raises
FillErrors ==
  {"ElementConfigurationError", "UserFunctionError", "SAPElementNotChangeable",
   "SAPStatusBarError", "SAPTableConfigurationError", "SAPElementNotFound",
   "AttributeError", "ValueError", "ComboBoxOptionNotFound"}

\* every action of the list at that site of entry e has made its driver call
AllActionsRan(e, site, actions) ==
  \A k \in 1..Len(actions) :
     \E i \in SiteEvents(e, {site}) : trace[i].pos = k

\* C6: for a screen that is entered, the driver calls come as entry
\* actions, then element fills, then commit, then exit actions; every
\* entry action has run, in the declared order, before the fill step
\* starts; the elements are handled in their declared order; the exit
\* actions run, in their declared order, only after the fill step has
\* returned, which with press_enter is after a status check that found no
\* error; and when the fill step or the commit raises, no exit action of
\* that screen is executed.
C6_EntryFillExitOrder ==
  \A e \in 1..Len(screen_order) : IsScreenEntry(e) =>
    LET sc == ScreenOf(e)
        ev == EntEvents(e)
        inFill == idx = e /\ pc \in {"fill", "table_start", "table_rows"}
        exits == SiteEvents(e, {"on_exit"})
    IN /\ \A i, j \in ev :
            i < j => /\ SiteRank(trace[i].site) <= SiteRank(trace[j].site)
                     /\ trace[i].site = trace[j].site =>
                          trace[i].pos <= trace[j].pos
       /\ (inFill \/ \E i \in ev : SiteRank(trace[i].site) >= 2) =>
            AllActionsRan(e, "on_entry", sc.on_entry)
       /\ (exits # {} \/ (idx = e /\ pc = "on_exit")) =>
            /\ idx = e => err \notin FillErrors
            /\ sc.press_enter =>
                 \E i \in SiteEvents(e, {"commit"}) :
                    trace[i].op = "status" /\ trace[i].a # "E"
       /\ (idx = e /\ err \in FillErrors) => exits = {}
       /\ (idx > e /\ EntryEntered(e)) =>
            AllActionsRan(e, "on_exit", sc.on_exit)

\* a finished run in which one screen ran its entry action, wrote its two
\* elements in turn, was committed and then ran its exit action
C6_Witness ==
  /\ pc = "done"
  /\ \E e \in 1..Len(screen_order) :
        /\ IsScreenEntry(e)
        /\ \E i, j, k, l, m \in EntEvents(e) :
              /\ i < j /\ j < k /\ k < l /\ l < m
              /\ trace[i].site = "on_entry"
              /\ trace[j].op = "write" /\ trace[j].pos = 1
              /\ trace[k].op = "write" /\ trace[k].pos = 2
              /\ trace[l].op = "status"
              /\ trace[m].site = "on_exit"

\* the events of one kind made for the element at position p of entry e
AttemptsAt(e, p, op) ==
  {i \in TraceIdx : /\ trace[i].ent = e /\ trace[i].site = "element"
                    /\ trace[i].pos = p /\ trace[i].op = op}

\* the successful writes made for the element at position p of entry e
WritesAt(e, p) == UNION {AttemptsAt(e, p, op) : op \in TextWriteOps}

\* C7: a text write that succeeds at attempt k+1 after k rejected attempts
\* (k < 4) does not raise: the successful write of the value (what set_text
\* makes of it: the stripped string for a plain text field) is the only
\* write and the last driver call made for that element, the k rejections
\* all precede it, and the element's name is marked processed.  A write
\* error is raised only for an element with 4 failed attempts, each
\* followed by its confirm key.
C7_RetryThenSuccess ==
  /\ \A i \in TraceIdx :
       IsTextWrite(trace[i]) =>
       LET e == trace[i].ent
           p == trace[i].pos
           fails == AttemptsAt(e, p, "write_fail")
           value == EntryData(e)[trace[i].el]
           result == set_text(cfg.gui, trace[i].a, value)
       IN /\ trace[i].n \in 1..4
          /\ Cardinality(fails) = trace[i].n - 1
          /\ \A f \in fails : f < i /\ trace[f].n < trace[i].n
          /\ WritesAt(e, p) = {i}
          /\ \A j \in EntEvents(e) :
                (j > i /\ trace[j].site = "element") => trace[j].pos > p
          /\ result.raised = "none"
          /\ trace[i].op = result.value.op
          /\ trace[i].b = result.value.text
          /\ (cfg.gui = guiText /\ ~ IsDate(value)) =>
                trace[i].b = Strip(Str(value))
          /\ trace[i].el \in processed
          /\ ~ (WriteRetryExhausted /\ idx = e /\ ei = p)
  /\ WriteRetryExhausted =>
       Cardinality({i \in AttemptsAt(idx, ei, "vkey") :
                      trace[i].a = "ENTER" /\ trace[i].b = "wnd[0]"}) = 4

\* a finished run in which a write was rejected twice and went through at
\* the third attempt
C7_Witness ==
  /\ pc = "done"
  /\ \E i \in TraceIdx :
        /\ trace[i].op = "write" /\ trace[i].n = 3
        /\ Cardinality(AttemptsAt(trace[i].ent, trace[i].pos, "write_fail")) = 2

\* the confirm keys sent on the main window while the element at position
\* p of entry e was being written
ConfirmKeysAt(e, p) ==
  {i \in AttemptsAt(e, p, "vkey") : trace[i].a = "ENTER" /\ trace[i].b = "wnd[0]"}

\* C8: a text write rejected at every attempt is attempted exactly 4
\* times and then raises the write error; three confirm keys were sent for
\* it, one between each two consecutive attempts, and its name is not
\* marked processed.
C8_ExhaustedRetryRaises ==
  WriteRetryExhausted =>
    /\ pc = "raised"
    /\ Cardinality({i \in AttemptsAt(idx, ei, "find") :
                      trace[i].b = "found"}) = 4
    /\ WritesAt(idx, ei) = {}
    /\ CurElement.name \notin processed
    /\ Cardinality(ConfirmKeysAt(idx, ei)) = 3

\* the page-turn keys of _paginate_table in the trace
PageTurns == {i \in TraceIdx : trace[i].op = "vkey" /\ trace[i].m = 1}

\* where the claim puts record i (counted from 0) of a growth-mode fill
\* into v visible rows: the first v records on page 1 at rows 0..v-1, the
\* later ones v-1 to a page at rows 1..v-1
GrowthPage(i, v) == IF i < v THEN 1 ELSE 2 + ((i - v) \div (v - 1))
GrowthRow(i, v) == IF i < v THEN i ELSE 1 + ((i - v) % (v - 1))

\* C9: in a growth-mode fill into v >= 2 visible rows, record i is written
\* at row GrowthRow(i, v) of page GrowthPage(i, v); a page turn, with the
\* confirm key, follows exactly the writes into row v-1 (the writes of a
\* record that went through: a cell assignment that raises ends the fill
\* before the page turn), and after it the
\* cursor is at row 1; for 7 records and v = 5 the records 5 and 6 are at
\* rows 1 and 2 of page 2 and there is exactly one page turn.
C9_GrowthPositions ==
  (pc \in {"table_rows", "done", "raised"} /\ is_table_empty
     /\ visible_rows >= 2) =>
    /\ \A k \in 1..Len(placed) :
          placed[k] = [rec |-> k, page |-> GrowthPage(k - 1, visible_rows),
                       row |-> GrowthRow(k - 1, visible_rows)]
    /\ Cardinality(PageTurns) =
          Cardinality({k \in 1..Len(placed) :
                         /\ placed[k].row = visible_rows - 1
                         /\ ~ (CellWriteRaised /\ k = Len(placed))})
    /\ \A i \in PageTurns : trace[i].a = "ENTER"
    /\ pc = "table_rows" =>
          /\ ri = Len(placed) + 1
          /\ page = GrowthPage(Len(placed), visible_rows)
          /\ current_row_idx = GrowthRow(Len(placed), visible_rows)
    /\ pc = "done" => Len(placed) = Len(tdata)
    /\ (pc = "done" /\ Len(tdata) = 7 /\ visible_rows = 5) =>
          /\ placed[6] = [rec |-> 6, page |-> 2, row |-> 1]
          /\ placed[7] = [rec |-> 7, page |-> 2, row |-> 2]
          /\ Cardinality(PageTurns) = 1

\* the growth-mode fill of 7 records into 5 visible rows has returned
C9_Witness ==
  /\ pc = "done"
  /\ is_table_empty
  /\ visible_rows = 5
  /\ Len(placed) = 7
  /\ PageTurns # {}

\* the scroll maxima fill() has read, as positions of the trace
ScrollReads == {i \in TraceIdx : trace[i].op = "scroll_max"}

\* C10: once fill() has read the vertical scroll maximum, the mode is what
\* that maximum says and nothing else: 0 gives the confirm key and resume
\* row 1, any other maximum gives page-down and resume row 0; every page
\* turn of the fill uses that key and every page after the first starts at
\* that row, whatever the data and the columns.
C10_ModeFromScrollMax ==
  IF ScrollReads = {}
    THEN pagination_key = "" /\ PageTurns = {} /\ placed = <<>>
    ELSE LET maximum == trace[MaxOf(ScrollReads)].n
             key == IF maximum = 0 THEN "ENTER" ELSE "PAGE_DOWN"
             resume == IF maximum = 0 THEN 1 ELSE 0
         IN /\ Cardinality(ScrollReads) = 1
            /\ is_table_empty = (maximum = 0)
            /\ pagination_key = key
            /\ next_row_idx_after_pagination = resume
            /\ \A i \in PageTurns : trace[i].a = key
            /\ \A k \in 2..Len(placed) :
                  placed[k].page # placed[k - 1].page =>
                    placed[k].row = resume

\* an overwrite-mode fill (scroll maximum 2) that turned the page with
\* page-down and has returned
C10_Witness ==
  /\ pc = "done"
  /\ \E i \in ScrollReads : trace[i].n = 2
  /\ \E i \in PageTurns : trace[i].a = "PAGE_DOWN"
  /\ \E k \in 2..Len(placed) : placed[k].page = 2 /\ placed[k].row = 0

\* the arguments of a direct fill() call that its validations reject
FillArgsRejected ==
  \/ cfg.columns # <<>> /\ cfg.exclude_columns # <<>>
  \/ cfg.data.recs = <<>>

\* C11: fill() called with both columns and exclude_columns, or with empty
\* data, makes no driver call at all: it never gets past its start, the
\* trace stays empty, no record is placed, and when it has ended it has
\* raised ValueError.
C11_FillValidatesFirst ==
  FillArgsRejected =>
    /\ trace = <<>>
    /\ placed = <<>>
    /\ pc \in {"table_start", "raised"}
    /\ pc = "raised" => err = "ValueError"

\* fill() was called with 3 records, a columns list and an exclude list,
\* and has raised
C11_Witness ==
  /\ pc = "raised"
  /\ err = "ValueError"
  /\ cfg.kind = "fill"
  /\ Len(cfg.data.recs) = 3
  /\ cfg.columns # <<>> /\ cfg.exclude_columns # <<>>

\* the screen order given to the constructor: a non-empty list of strings
GivenOrder == cfg.screen_order.list
OrderOfStrings ==
  /\ ~ cfg.screen_order.isNone
  /\ GivenOrder # <<>>
  /\ \A i \in 1..Len(GivenOrder) : GivenOrder[i].tag = "str"

\* the string is an action token: it starts with "ACTION_"
IsActionToken(raw) == Len(raw.parts) >= 2 /\ raw.parts[1] = "ACTION"

\* what the claim says the string raw resolves to, item being the entry
\* found at its position: "ACTION_CLICK_<target>" a CLICK action whose
\* target_id is all of <target>, another action token the Action of the
\* type it names, a plain name the reference to that screen
ResolvesTo(raw, item) ==
  IF IsActionToken(raw) /\ Len(raw.parts) >= 3 /\ raw.parts[2] = "CLICK"
    THEN /\ item.kind = "action"
         /\ item.action.type = <<"click">>
         /\ << item.action.target_id >> = Tail0(raw.parts, 2)
  ELSE IF IsActionToken(raw)
    THEN /\ item.kind = "action"
         /\ item.action.type = LowerAll(Tail0(raw.parts, 1))
  ELSE /\ item.kind = "screen"
       /\ item.name = raw.parts

\* C12: once the constructor has resolved a screen order made of strings,
\* it has not raised, the resolved order has one entry per string, and
\* each entry is what its string names: one CLICK Action with the whole
\* target for "ACTION_CLICK_<target>", one Action of the named type for
\* the other action tokens, a screen reference for a plain name.
C12_ActionTokensResolve ==
  (OrderOfStrings /\ pc # "init") =>
    /\ err \notin {"ValueError", "IndexError", "TypeError"}
    /\ Len(screen_order) = Len(GivenOrder)
    /\ \A i \in 1..Len(GivenOrder) : ResolvesTo(GivenOrder[i], screen_order[i])

\* C13: a TransactionRunner constructed with screen_order None or with an
\* empty list is constructed without error, and its resolved order is the
\* screens of the screen map in the map's order, which is the order the
\* run then processes them in.
C13_DefaultOrderIsMapOrder ==
  ((cfg.screen_order.isNone \/ cfg.screen_order.list = <<>>)
     /\ cfg.kind = "run" /\ pc # "init") =>
    /\ err \notin {"TypeError", "ValueError", "IndexError"}
    /\ Len(screen_order) = Len(ScreenMap)
    /\ \A i \in 1..Len(ScreenMap) :
          /\ screen_order[i].kind = "screen"
          /\ screen_order[i].name = ScreenMap[i].name
    /\ \A i, j \in TraceIdx : i < j => trace[i].ent <= trace[j].ent

\* entry e of the resolved order refers to a screen the screen map lacks
UnknownScreen(e) ==
  /\ screen_order[e].kind = "screen"
  /\ \A k \in 1..Len(ScreenMap) : ScreenMap[k].name # screen_order[e].name

\* C14: an entry that refers to a screen missing from the screen map makes
\* no driver call and the run never gets past it; when the run has taken
\* it up, it has raised ScreenMappingError, every driver call made belongs
\* to an earlier entry, and ScreenMappingError is raised nowhere else.
C14_UnknownScreenRaises ==
  /\ \A e \in 1..Len(screen_order) : UnknownScreen(e) =>
        /\ EntEvents(e) = {}
        /\ idx <= e
        /\ (idx = e /\ pc # "entry") =>
              /\ pc = "raised" /\ err = "ScreenMappingError"
              /\ \A i \in TraceIdx : trace[i].ent < e
  /\ err = "ScreenMappingError" =>
        idx \in 1..Len(screen_order) /\ UnknownScreen(idx)

\* the second entry names a missing screen and has raised, after the
\* first screen was filled and ran its exit actions
C14_Witness ==
  /\ err = "ScreenMappingError"
  /\ idx = 2
  /\ \E i \in EntEvents(1) : trace[i].op = "write"
  /\ \E i \in EntEvents(1) : trace[i].site = "on_exit"

\* the column allow-list that the reference at entry e configures for the
\* table called name: none (<<>>) when the reference has no table_columns
\* or no entry for that name
AllowList(e, name) ==
  LET tc == screen_order[e].table_columns
      hits == {k \in 1..Len(tc.entries) : tc.entries[k][1] = name}
  IN IF tc.isNone \/ hits = {} THEN <<>>
     ELSE tc.entries[CHOOSE k \in hits : TRUE][2]

\* C15: a TABLE element that is not yet processed is handed to fill() with
\* the whole list of records selected for the screen and with the allow
\* list configured for its name, or without column filter when there is
\* none (a reference by plain name included), so the absence of
\* table_columns is no error; and once the fill step of the screen has
\* returned, the name of the table is marked processed.
C15_TableFillerInvoked ==
  /\ err # "AttributeError"
  /\ (cfg.kind = "run" /\ pc \in {"table_start", "table_rows"}) =>
        /\ CurElement.type = "table"
        /\ CurElement.name \notin processed
        /\ tdata = CurData.line_items
        /\ tcolumns = AllowList(idx, CurElement.name)
        /\ texclude = <<>>
  /\ \A e \in 1..Len(screen_order) :
        (IsScreenEntry(e) /\ FillReturned(e)) =>
          \A p \in 1..Len(ScreenOf(e).elements) :
             ScreenOf(e).elements[p].type = "table" =>
               ScreenOf(e).elements[p].name \in processed

\* the element at position p of the screen of entry e cannot be filled: a
\* CALLABLE without function, or a type that is not TEXT, CALLABLE, TABLE
Unfillable(e, p) ==
  LET el == ScreenOf(e).elements[p]
  IN \/ el.type = "callable" /\ ~ el.func
     \/ el.type \notin {"text", "callable", "table"}

\* the driver calls made for the element at position p of entry e
ElementEvents(e, p) ==
  {i \in EntEvents(e) : trace[i].site \in FillSites /\ trace[i].pos = p}

\* C16: an element that cannot be filled never gets a driver call, and the
\* fill of its screen never gets past it unless its name was processed
\* before.  When ElementConfigurationError is raised, it is at such an
\* element, not yet processed, in one step and without retry; the screen
\* has no commit and no exit action; and each value written to an earlier
\* element of the screen is still the last driver call for that element.
C16_UnfillableElementRaises ==
  /\ \A e \in 1..Len(screen_order) : IsScreenEntry(e) =>
        \A p \in 1..Len(ScreenOf(e).elements) : Unfillable(e, p) =>
          /\ ElementEvents(e, p) = {}
          /\ (idx > e \/ (idx = e /\ pc \in {"fill", "on_exit"} /\ ei > p)) =>
                \/ ScreenOf(e).elements[p].name \in processed
                \/ ~ EntryEntered(e)
  /\ err = "ElementConfigurationError" =>
        /\ pc = "raised"
        /\ IsScreenEntry(idx)
        /\ ei \in 1..Len(ScreenOf(idx).elements)
        /\ Unfillable(idx, ei)
        /\ ScreenOf(idx).elements[ei].name \notin processed
        /\ SiteEvents(idx, {"commit", "on_exit"}) = {}
        /\ \A i \in EntEvents(idx) :
              IsTextWrite(trace[i]) =>
                /\ trace[i].pos < ei
                /\ trace[i].el \in processed
                /\ \A j \in ElementEvents(idx, trace[i].pos) : j <= i

\* a click-type element has raised after the element before it in the
\* screen's list was written
C16_Witness ==
  /\ err = "ElementConfigurationError"
  /\ ScreenOf(idx).elements[ei].type = "click"
  /\ \E i \in EntEvents(idx) : trace[i].op = "write" /\ trace[i].pos = ei - 1

\* the sites at which _execute_actions is called
ActionSites == {"bare", "on_entry", "on_exit"}

\* the list of actions _execute_actions is given at that site of entry e
ActionList(e, site) ==
  IF screen_order[e].kind = "action"
    THEN IF site = "bare" THEN << screen_order[e].action >> ELSE <<>>
  ELSE IF ~ IsScreenEntry(e) THEN <<>>
  ELSE IF site = "on_entry" THEN ScreenOf(e).on_entry
  ELSE IF site = "on_exit" THEN ScreenOf(e).on_exit
  ELSE <<>>

\* the driver calls made for the action at position k of that list
ActionEvents(e, site, k) ==
  {i \in SiteEvents(e, {site}) : trace[i].pos = k}

\* an action that lacks what its type requires
Misconfigured(a) ==
  \/ a.type = <<"click">> /\ a.target_id = "None"
  \/ a.type = <<"send", "vkey">> /\ a.vkey = "None"

\* C17: the driver calls of an action list come in list order and an
\* action runs only after all actions before it in the list have made
\* their calls; a CLICK without target_id and a SEND_VKEY without vkey
\* make no driver call, and no action after them in the list makes one;
\* ActionConfigurationError is raised exactly there: at a misconfigured
\* action whose predecessors have all run; and a BACK action makes one
\* driver call, the key F3 on the main window.
C17_ActionsInOrderOrRaise ==
  /\ \A e \in 1..Len(screen_order) : \A site \in ActionSites :
        LET L == ActionList(e, site)
        IN /\ \A i, j \in SiteEvents(e, {site}) :
                i < j => trace[i].pos <= trace[j].pos
           /\ \A k \in 1..Len(L) :
                /\ ActionEvents(e, site, k) # {} =>
                     \A h \in 1..(k - 1) : ActionEvents(e, site, h) # {}
                /\ Misconfigured(L[k]) =>
                     \A h \in k..Len(L) : ActionEvents(e, site, h) = {}
                /\ L[k].type = <<"back">> =>
                     /\ Cardinality(ActionEvents(e, site, k)) <= 1
                     /\ \A i \in ActionEvents(e, site, k) :
                           /\ trace[i].op = "vkey" /\ trace[i].a = "F3"
                           /\ trace[i].b = "wnd[0]"
  /\ err = "ActionConfigurationError" =>
        /\ pc = "raised"
        /\ \E site \in ActionSites :
              LET L == ActionList(idx, site)
              IN /\ ai \in 1..Len(L)
                 /\ Misconfigured(L[ai])
                 /\ \A h \in 1..(ai - 1) :
                       ActionEvents(idx, site, h) # {}
                 /\ \A i \in EntEvents(idx) :
                       /\ SiteRank(trace[i].site) <= SiteRank(site)
                       /\ trace[i].site = site => trace[i].pos < ai

\* a SEND_VKEY action without vkey has raised after the action before it
\* in the list sent its key, and a BACK action follows it in the list
C17_Witness ==
  /\ err = "ActionConfigurationError"
  /\ ai = 2
  /\ ScreenOf(idx).on_entry[2].type = <<"send", "vkey">>
  /\ ScreenOf(idx).on_entry[3].type = <<"back">>
  /\ \E i \in ActionEvents(idx, "on_entry", 1) :
        trace[i].op = "vkey" /\ trace[i].a = "F8"

\* the lookups of a CLICK target in the trace
TargetLookups ==
  {i \in TraceIdx : trace[i].op = "find" /\ trace[i].site \in ActionSites}

\* C18: a CLICK action whose target is not found makes no other driver
\* call than the lookup, raises nothing, and control goes on to the next
\* action of the list or, after the last one, to what follows the list; a
\* CLICK action whose target is found clicks that target once, right after
\* the lookup; and no click is made without such a lookup.
C18_MissingTargetTolerated ==
  /\ [](/\ \A i \in TargetLookups :
              LET evs == ActionEvents(trace[i].ent, trace[i].site, trace[i].pos)
              IN IF trace[i].b = "missing"
                   THEN evs = {i}
                   ELSE /\ evs = {i, i + 1}
                        /\ trace[i + 1].op = "click"
                        /\ trace[i + 1].a = trace[i].a
         /\ \A j \in TraceIdx : trace[j].op = "click" =>
              /\ j - 1 \in TargetLookups
              /\ trace[j - 1].b = "found")
  /\ [][(/\ pc \in ActionSites
          /\ Len(trace') = Len(trace) + 1
          /\ trace'[Len(trace')].op = "find"
          /\ trace'[Len(trace')].b = "missing") =>
           /\ err' = "none"
           /\ IF ai < Len(CurActions)
                 THEN ai' = ai + 1 /\ pc' = pc /\ idx' = idx
               ELSE IF pc = "on_entry"
                 THEN pc' = "fill" /\ idx' = idx
               ELSE pc' = "entry" /\ idx' = idx + 1]_vars

\* a finished run in which one CLICK target was found and clicked and
\* another was not found, after which the screen was still committed
C18_Witness ==
  /\ pc = "done"
  /\ \E j \in TraceIdx : trace[j].op = "click"
  /\ \E i \in TargetLookups :
        /\ trace[i].b = "missing"
        /\ \E j \in SiteEvents(trace[i].ent, {"commit"}) : j > i

\* the lookups of a TEXT element that did not find it
MissedLookups ==
  {i \in TraceIdx :
     /\ trace[i].op = "find" /\ trace[i].b = "missing"
     /\ trace[i].site = "element"
     /\ ScreenOf(trace[i].ent).elements[trace[i].pos].type = "text"}

\* C19: when the lookup of a TEXT element with a value does not find it,
\* that lookup is the last driver call made for the element: no write, no
\* further attempt and no confirm key follow it; the step raises nothing,
\* leaves processed_elements as it was and goes on to the next element of
\* the screen.
C19_MissingTextElementSkipped ==
  /\ [](\A i \in MissedLookups :
           /\ \A j \in ElementEvents(trace[i].ent, trace[i].pos) : j <= i
           /\ WritesAt(trace[i].ent, trace[i].pos) = {}
           /\ trace[i].el \in DOMAIN EntryData(trace[i].ent)
           /\ EntryData(trace[i].ent)[trace[i].el] # "None")
  /\ [][(/\ Len(trace') > Len(trace)
          /\ trace'[Len(trace')].op = "find"
          /\ trace'[Len(trace')].b = "missing"
          /\ trace'[Len(trace')].site = "element"
          /\ CurElement.type = "text") =>
           /\ Len(trace') = Len(trace) + 1
           /\ err' = "none"
           /\ processed' = processed
           /\ pc = "fill" /\ pc' = "fill"
           /\ idx' = idx
           /\ ei' = ei + 1]_vars

\* a finished run in which a TEXT element was not found, was left out of
\* processed_elements, and the element after it on the screen was written
C19_Witness ==
  /\ pc = "done"
  /\ \E i \in MissedLookups :
        /\ trace[i].el \notin processed
        /\ \E j \in TraceIdx :
              /\ j > i /\ trace[j].op = "write"
              /\ trace[j].ent = trace[i].ent /\ trace[j].pos = trace[i].pos + 1

\* the data the claim selects for the screen of entry e: the screen_data
\* entry of that name when there is one, whatever it holds, else the
\* general data
ClaimedData(e) ==
  IF ScreenOf(e).name \in DOMAIN cfg.screen_data
    THEN Dict(<< cfg.screen_data[ScreenOf(e).name] >>)
    ELSE cfg.data

\* its record for the scalar fields and its list of table rows
ClaimedRecord(e) ==
  IF ClaimedData(e).isList /\ ClaimedData(e).recs = <<>> THEN EmptyDict
  ELSE ClaimedData(e).recs[1]
ClaimedRows(e) == ClaimedData(e).recs

\* C20: for every screen entry the run has reached, the data selected for
\* the screen is its screen_data entry when screen_data has one (an empty
\* record included) and the general data otherwise, with the first record
\* of a list for the scalar fields and the whole list as table rows, and a
\* single record for both; every value written to a field of the screen
\* is that record's value, and the rows handed to a table fill are those
\* rows.
C20_ScreenDataSelection ==
  \A e \in 1..Len(screen_order) : (IsScreenEntry(e) /\ e <= idx) =>
    /\ _get_data_for_screen(ScreenOf(e)) =
         [current_data |-> ClaimedRecord(e), line_items |-> ClaimedRows(e)]
    /\ \A i \in EntEvents(e) : IsTextWrite(trace[i]) =>
         /\ trace[i].el \in DOMAIN ClaimedRecord(e)
         /\ trace[i].b =
              set_text(cfg.gui, trace[i].a,
                       ClaimedRecord(e)[trace[i].el]).value.text
    /\ (idx = e /\ pc \in {"table_start", "table_rows"}) =>
         tdata = ClaimedRows(e)

\* the title a grid column or a list entry stands for: trimmed, lower case
NormTitle(t) == Lower(Strip(t))

\* the index (0-based) of the last grid column carrying title t
LastColumnOf(t) ==
  MaxOf({i \in 1..Len(GridColumns) : NormTitle(GridColumns[i]) = t}) - 1

\* the titles the claim keeps: those equal to an allow-list entry, or to no
\* block-list entry, both sides trimmed and lower case
ClaimedTitles ==
  LET all == {NormTitle(GridColumns[i]) : i \in 1..Len(GridColumns)} \ {""}
      allow == {NormTitle(tcolumns[j]) : j \in 1..Len(tcolumns)}
      block == {NormTitle(texclude[j]) : j \in 1..Len(texclude)}
  IN IF tcolumns # <<>> THEN all \cap allow
     ELSE IF texclude # <<>> THEN all \ block
     ELSE all

\* C21: once fill() has built its column map, the map holds exactly one
\* entry per distinct non-empty trimmed lower-case header title that the
\* allow-list names (or the block-list does not name), the lists compared
\* trimmed and case-insensitively too, and each title maps to the index of
\* the last column carrying it.
C21_ColumnMapContents ==
  page # 0 =>
    /\ \A j, k \in 1..Len(column_map) :
         column_map[j][1] = column_map[k][1] => j = k
    /\ {column_map[j] : j \in 1..Len(column_map)} =
         {<<t, LastColumnOf(t)>> : t \in ClaimedTitles}

\* the position of the TABLE element among the elements of entry e
TablePos(e) ==
  CHOOSE k \in 1..Len(ScreenOf(e).elements) :
    ScreenOf(e).elements[k].type = "table"

\* the table fill of entry e went through all its records: the run is past
\* the TABLE element, or it was stopped by the error check of the table
\* commit
TableFilled(e) ==
  /\ SiteEvents(e, {"table_fill"}) # {}
  /\ \/ idx > e
     \/ idx = e /\ pc = "on_exit"
     \/ idx = e /\ pc = "fill" /\ ei > TablePos(e)
     \/ idx = e /\ pc = "raised" /\ SiteEvents(e, {"table_commit"}) # {}

\* C22: a table fill that went through all its records has exactly one
\* table commit: one block made of the confirm key on the main window,
\* dismiss_popups with one ENTER per popup, and the check for an error
\* dialog, placed after every cell access of the fill and before every
\* event of the screen's own commit; and when the screen has press_enter
\* and its fill step has returned, the screen's commit is in the trace
\* after it.
C22_TableCommitBeforeScreenCommit ==
  \A e \in 1..Len(screen_order) : (IsScreenEntry(e) /\ EntryHasTable(e)) =>
    LET tc == SiteEvents(e, {"table_commit"})
        first == MinOf(tc)
        last == MaxOf(tc)
        sc == SiteEvents(e, {"commit"})
    IN /\ TableFilled(e) => tc # {}
       /\ tc # {} =>
            /\ tc = first..last
            /\ trace[first].op = "vkey" /\ trace[first].a = "ENTER"
            /\ trace[first].b = "wnd[0]"
            /\ trace[first + 1].op = "dismiss_popups"
            /\ last = first + 2 + trace[first + 1].n
            /\ \A i \in (first + 2)..(last - 1) :
                  /\ trace[i].op = "vkey" /\ trace[i].a = "ENTER"
                  /\ trace[i].b = "wnd[1]"
            /\ trace[last].op = "error_dialog"
            /\ \A i \in SiteEvents(e, {"table_fill", "table_row"}) :
                  i < first
            /\ \A i \in sc : i > last
       /\ (tc # {} /\ ScreenOf(e).press_enter /\ FillReturned(e)) =>
            /\ sc # {}
            /\ trace[MinOf(sc)].op = "vkey" /\ trace[MinOf(sc)].a = "ENTER"
            /\ MinOf(sc) = last + 1

\* the run is over; a table was filled with cell writes on two pages, its
\* commit went through a popup, and the screen was committed after it
C22_Witness ==
  /\ pc = "done"
  /\ \E e \in 1..Len(screen_order) :
        /\ IsScreenEntry(e) /\ EntryHasTable(e)
        /\ \E i \in SiteEvents(e, {"table_row"}) : trace[i].op = "cell_write"
        /\ \E i \in SiteEvents(e, {"table_row"}) :
              trace[i].op = "vkey" /\ trace[i].m = 1
        /\ \E i \in SiteEvents(e, {"table_commit"}) :
              trace[i].op = "dismiss_popups" /\ trace[i].n = 1
        /\ \E i \in SiteEvents(e, {"commit"}) : trace[i].op = "status"

\* the commit events (of a screen or of a table) in the trace
CommitEvents == {i \in TraceIdx : trace[i].site \in {"commit", "table_commit"}}

\* C23: when the status line shows error severity after a screen commit or
\* a table commit, the run has stopped at that commit with a domain error:
\* the error check of the commit is the last driver call, so nothing was
\* retried and nothing followed, in particular not the confirm key of the
\* enclosing screen after a table commit.
C23_StatusErrorSurfacedAtCommit ==
  (sbar = "E" /\ CommitEvents # {}) =>
    /\ pc = "raised"
    /\ err \in {"SAPStatusBarError", "SAPTableConfigurationError"}
    /\ MaxOf(CommitEvents) = Len(trace)
    /\ Last.op \in {"status", "error_dialog"}

\* the names of the elements filled (written, called, or table-filled) by
\* the n-th call of run()
RunStarts == {i \in TraceIdx : trace[i].op = "start_transaction"}
RunOfEvent(i) == Cardinality({j \in RunStarts : j <= i})
FilledInRun(n) ==
  {trace[i].el : i \in {j \in TraceIdx :
      /\ RunOfEvent(j) = n
      /\ \/ IsTextWrite(trace[j]) \/ IsCellWrite(trace[j])
         \/ trace[j].op = "call"}}

\* C24: processed_elements never loses a name; it is empty whenever a call
\* of run() has just started, the second call on the same TransactionRunner
\* included; and when the second call has returned it has filled the same
\* elements as the first.
C24_ProcessedResetPerRun ==
  /\ []((pc = "entry" /\ idx = 1) => processed = {})
  /\ []((pc = "done" /\ Runs = 2) => FilledInRun(2) = FilledInRun(1))
  /\ [][processed \subseteq processed']_vars

\* the status bar texts of the model that contain "does not exist" in some
\* mix of upper and lower case
SaysDoesNotExist ==
  {"Transaction X does not exist", "TRANSACTION X DOES NOT EXIST"}

\* the text the status bar showed when start_transaction read it
StatusTextRead == trace[MaxOf({i \in TraceIdx : trace[i].op = "statusbar"})].a

\* C25: a direct call of start_transaction(tcode) that has ended raised a
\* transaction error, with the status text in its message, exactly when
\* the status text read after the start contains "does not exist" in any
\* case, and has returned True otherwise.
C25_StartTransactionOutcome ==
  (cfg.kind = "start_transaction" /\ Terminated) =>
    /\ (pc = "raised") = (StatusTextRead \in SaysDoesNotExist)
    /\ pc = "raised" =>
         /\ err = "SAPTransactionError"
         /\ \E j \in 1..Len(msg) : msg[j] = StatusTextRead
    /\ pc = "done" => ret = "True"

\* the status bar texts of the model that report the user as already
\* logged on, in some mix of upper and lower case
SaysAlreadyLoggedOn ==
  {"User X is already logged on", "USER X IS ALREADY LOGGED ON"}

\* the status checks of a login() call
LoginStatusReads == {i \in TraceIdx : trace[i].op = "status"}

\* C26: a login() call has returned True only if the login screen was
\* absent (the user field was not found and nothing else was done), or the
\* status read after submitting was not of error severity and, when it
\* reported the user as already logged on, terminate_other_sessions was
\* true.  A status of error severity, and an "already logged on" status
\* with terminate_other_sessions false, have raised SAPLoginError, and the
\* status check is the last driver call: no key was sent after it.
C26_LoginOutcome ==
  cfg.kind = "login" =>
    /\ ret = "True" =>
         \/ /\ LoginStatusReads = {}
            /\ trace = << Ev("find", LoginUsername, "missing", 0, 0) >>
         \/ \E i \in LoginStatusReads :
              /\ trace[i].a # "E"
              /\ trace[i].b \in SaysAlreadyLoggedOn =>
                   cfg.terminate_other_sessions
    /\ \A i \in LoginStatusReads :
         (\/ trace[i].a = "E"
          \/ /\ trace[i].b \in SaysAlreadyLoggedOn
             /\ ~ cfg.terminate_other_sessions) =>
           /\ pc = "raised"
           /\ err = "SAPLoginError"
           /\ ret = "unset"
           /\ i = Len(trace)

\* login() has returned True after an upper-case "already logged on"
\* status, having selected the radio button and sent ENTER to window 1
C26_Witness ==
  /\ cfg.kind = "login"
  /\ pc = "done"
  /\ ret = "True"
  /\ cfg.terminate_other_sessions
  /\ \E i \in LoginStatusReads : trace[i].b = "USER X IS ALREADY LOGGED ON"
  /\ \E i \in TraceIdx : trace[i].op = "select"
  /\ \E i \in TraceIdx : trace[i].op = "vkey" /\ trace[i].b = "wnd[1]"

\* the resume row of the mode the fill is in
ModeResumeRow == IF is_table_empty THEN GrowthResumeRow ELSE OverwriteResumeRow

\* the cell reads, focus calls and writes of the trace
CellAccesses ==
  {i \in TraceIdx : \/ trace[i].op \in {"GetCell", "setFocus"}
                    \/ IsCellWrite(trace[i])}

\* C27: every page turn of a table fill is one block of driver calls: the
\* fill's pagination key, once, then dismiss_popups with one ENTER per
\* popup, then the check for an error dialog, then, unless that check has
\* raised, the lookup of the grid by its id; no cell is read or written
\* inside the block, and the check that raises is the last driver call.
\* The step that turns the page leaves the row cursor at the resume row of
\* the mode (1 in growth mode, 0 in overwrite mode) and the page counter
\* one higher.
C27_PageTurnSequence ==
  /\ [](\A i \in PageTurns :
          LET d == i + 1
              c == d + 1 + trace[d].n
          IN /\ trace[i].a = pagination_key
             /\ trace[i].b = "wnd[0]"
             /\ trace[d].op = "dismiss_popups"
             /\ \A j \in (d + 1)..(c - 1) :
                   trace[j].op = "vkey" /\ trace[j].b = "wnd[1]"
             /\ trace[c].op = "error_dialog"
             /\ IF trace[c].a = "modal"
                  THEN c = Len(trace) /\ err = "SAPTableConfigurationError"
                  ELSE /\ trace[c + 1].op = "find"
                       /\ trace[c + 1].a = GridId
                       /\ trace[c + 1].b = "found"
                       /\ \A j \in CellAccesses : j > i => j > c + 1)
  /\ [][(Cardinality(PageTurns') > Cardinality(PageTurns) /\ pc' # "raised") =>
         /\ Cardinality(PageTurns') = Cardinality(PageTurns) + 1
         /\ page' = page + 1
         /\ current_row_idx' = ModeResumeRow
         /\ Last'.op = "find"]_vars

\* an overwrite-mode fill has turned a page through a popup and has read
\* a cell at row 0 after it
C27_Witness ==
  /\ ~ is_table_empty
  /\ PageTurns # {}
  /\ \E i \in PageTurns : trace[i + 1].n = 1
  /\ \E j \in CellAccesses : j > MaxOf(PageTurns) /\ trace[j].n = 0

\* the writes of the grid's scroll position
ScrollWrites == {i \in TraceIdx : trace[i].op = "scroll_set"}

\* C28: once fill() has chosen its mode, an overwrite-mode fill has set
\* the scroll position to 0, exactly once, right after reading the scroll
\* maximum, and has looked the grid up again right after that, both before
\* its first cell access and its first page turn; a growth-mode fill has
\* no write of the scroll position at all.
C28_ScrollResetInOverwriteOnly ==
  page # 0 =>
    IF is_table_empty THEN ScrollWrites = {}
    ELSE /\ Cardinality(ScrollWrites) = 1
         /\ \A i \in ScrollWrites :
              /\ trace[i].n = 0
              /\ trace[i - 1].op = "scroll_max" /\ trace[i - 1].n # 0
              /\ trace[i + 1].op = "find"
              /\ trace[i + 1].a = GridId
              /\ \A j \in CellAccesses \cup PageTurns : j > i + 1

\* an overwrite-mode fill has written a cell after the reset
C28_Witness ==
  /\ page # 0
  /\ ~ is_table_empty
  /\ ScrollWrites # {}
  /\ \E j \in CellAccesses : trace[j].op = "cell_write"

\* the cells read in the step from trace to trace', and those written
NewReads == {i \in (Len(trace) + 1)..Len(trace') : trace'[i].op = "GetCell"}
NewWrites ==
  {i \in (Len(trace) + 1)..Len(trace') : IsCellWrite(trace'[i])}

\* where the write of the cell read at position i of the trace is: right
\* after the read, or after the cell.setFocus() that follows the read when
\* set_focus is true
WriteOf(i) == IF cfg.set_focus THEN i + 2 ELSE i + 1

\* the read that the cell write at position i of the trace follows
ReadOf(i) == IF cfg.set_focus THEN i - 2 ELSE i - 1

\* the last cell read of the trace
LastRead == MaxOf({i \in TraceIdx : trace[i].op = "GetCell"})

\* C29: in a table fill every cell write comes after the read of the same
\* cell, which reported the cell changeable, with nothing but the cell's
\* setFocus() in between; a cell reported not changeable is not written
\* and no error comes from it: the only errors of a fill with cell reads
\* are the page turn's and the one of an assignment to the changeable cell
\* read last.  Each step over a record reads cells of mapped columns whose
\* title is a key of the record with a value other than None, and no
\* other cell, whatever cells are not changeable: one cell for each such
\* column unless an assignment raised; it writes the record's value, as a
\* trimmed string or as the key of the combobox entry of that text, and
\* goes on to the next record unless the page turn or an assignment
\* raised; and a fill that has returned has made its table commit.
C29_ReadOnlyCellsSkipped ==
  /\ [](\A i \in CellAccesses :
          /\ IsCellWrite(trace[i]) =>
               /\ ReadOf(i) >= 1
               /\ trace[ReadOf(i)].op = "GetCell"
               /\ trace[ReadOf(i)].b = "changeable"
               /\ trace[ReadOf(i)].n = trace[i].n
               /\ trace[ReadOf(i)].m = trace[i].m
          /\ (trace[i].op = "GetCell" /\ trace[i].b = "readonly") =>
               /\ \/ WriteOf(i) > Len(trace)
                  \/ ~ IsCellWrite(trace[WriteOf(i)])
               /\ \/ i = Len(trace)
                  \/ ~ IsCellWrite(trace[i + 1])
               /\ err \in {"none", "SAPTableConfigurationError"} \cup WriteErrors
               /\ CellWriteRaised =>
                    /\ LastRead # i
                    /\ trace[LastRead].b = "changeable")
  /\ []((pc = "done" /\ cfg.kind = "fill") =>
          /\ Len(placed) = Len(tdata)
          /\ \E i \in TraceIdx : trace[i].site = "table_commit")
  /\ [][(pc = "table_rows" /\ ri <= Len(tdata) /\ trace' # trace) =>
         LET row == tdata[ri]
             mapped == {t \in MapTitles(column_map) :
                          t \in DOMAIN row /\ row[t] # "None"}
         IN /\ {trace'[i].a : i \in NewReads} \subseteq mapped
            /\ ~ CellWriteRaised' =>
                  /\ {trace'[i].a : i \in NewReads} = mapped
                  /\ Cardinality(NewReads) = Cardinality(mapped)
            /\ \A i \in NewReads :
                  /\ <<trace'[i].a, trace'[i].m>> \in SeqToSet(column_map)
                  /\ trace'[i].n = current_row_idx
                  /\ trace'[i].b = "changeable" =>
                       LET result == CellText(trace'[i].a, row[trace'[i].a])
                       IN \/ /\ WriteOf(i) \in NewWrites
                             /\ result.raised = "none"
                             /\ trace'[WriteOf(i)].op = result.value.op
                             /\ trace'[WriteOf(i)].b = result.value.text
                             /\ cfg.gui.type # "GuiComboBox" =>
                                  trace'[WriteOf(i)].b =
                                    Strip(Str(row[trace'[i].a]))
                          \/ /\ WriteOf(i) = Len(trace') + 1
                             /\ result.raised = err'
                             /\ CellWriteRaised'
            /\ (pc' = "raised") =
                 \/ Last'.op = "error_dialog" /\ Last'.a = "modal"
                 \/ CellWriteRaised'
            /\ pc' # "raised" => ri' = ri + 1]_vars

\* a fill has returned in which a cell was not changeable, a later cell of
\* the same record was written, and a later record was written too
C29_Witness ==
  /\ pc = "done"
  /\ cfg.kind = "fill"
  /\ \E i \in CellAccesses :
        /\ trace[i].op = "GetCell" /\ trace[i].b = "readonly"
        /\ trace[i + 1].op = "GetCell" /\ trace[i + 1].n = trace[i].n
        /\ trace[i + 2].op = "cell_write" /\ trace[i + 2].n = trace[i].n
        /\ \E j \in CellAccesses :
              j > i + 2 /\ trace[j].op = "cell_write" /\ trace[j].n # trace[i].n

\* C30: in a table fill into a grid with v >= 1 visible rows, in either
\* mode and for any number of records, every cell read and every cell
\* write addresses a row r with 0 <= r <= v - 1.
C30_RowCursorInWindow ==
  (page # 0 /\ visible_rows >= 1) =>
    \A i \in CellAccesses : 0 <= trace[i].n /\ trace[i].n <= visible_rows - 1

\* the keys a fill has sent to the main window
MainWindowKeys ==
  {i \in TraceIdx : trace[i].op = "vkey" /\ trace[i].b = "wnd[0]"}

\* C31: a table fill sends its pagination key only in a step over a
\* record that is not the last of the data, so after the cells of the last
\* record no pagination key follows; a fill of n records into v >= n
\* visible rows has no page turn, and the only key it sends to the main
\* window is the confirm key of the table commit.
C31_NoPageTurnAfterLastRecord ==
  /\ [][Cardinality(PageTurns') > Cardinality(PageTurns) =>
          ri < Len(tdata)]_vars
  /\ []((page # 0 /\ Len(tdata) <= visible_rows) =>
          /\ PageTurns = {}
          /\ \A i \in MainWindowKeys :
                trace[i].site = "table_commit" /\ trace[i].a = "ENTER")

\* C32: within one table fill no two records are placed at the same
\* (page, row): the record at position k of the data is the k-th one
\* placed, and records at different positions differ in page or in row,
\* in either mode and for every number of visible rows.
C32_PlacementInjective ==
  page # 0 =>
    /\ \A k \in 1..Len(placed) : placed[k].rec = k
    /\ \A j, k \in 1..Len(placed) :
          (placed[j].page = placed[k].page /\ placed[j].row = placed[k].row)
            => j = k

\* an overwrite-mode fill has returned after placing records at row 0 of
\* three different pages
C32_Witness ==
  /\ pc = "done"
  /\ ~ is_table_empty
  /\ \E i, j, k \in 1..Len(placed) :
        /\ placed[i].row = 0 /\ placed[j].row = 0 /\ placed[k].row = 0
        /\ placed[i].page < placed[j].page /\ placed[j].page < placed[k].page

\* the errors the constructor raises while resolving the screen order
ConstructionErrors == {"ValueError", "IndexError", "TypeError"}

\* C33: once the constructor has resolved a supplied, non-empty screen
\* order, either construction has failed with an error, or the resolved
\* order has exactly one item per supplied entry, at the same position: an
\* Action for an action token, a reference to the named screen for a plain
\* name or a dict; no entry is dropped and none gives two items.
C33_ResolutionKeepsLengthAndOrder ==
  (cfg.kind = "run" /\ ~ cfg.screen_order.isNone /\ GivenOrder # <<>>
     /\ pc # "init") =>
    \/ err \in ConstructionErrors
    \/ /\ Len(screen_order) = Len(GivenOrder)
       /\ \A i \in 1..Len(GivenOrder) :
             CASE GivenOrder[i].tag = "str" /\ IsActionToken(GivenOrder[i]) ->
                    screen_order[i].kind = "action"
               [] GivenOrder[i].tag \in {"str", "dict"} ->
                    /\ screen_order[i].kind = "screen"
                    /\ screen_order[i].name = GivenOrder[i].parts
               [] OTHER -> screen_order[i].kind \in {"screen", "action"}

\* the mapped titles record row has a value for, its keys compared as the
\* column titles are: trimmed and lower case
MappedByNormalisedKey(row) ==
  {t \in MapTitles(column_map) :
     \E key \in DOMAIN row : NormTitle(key) = t /\ row[key] # "None"}

\* C34: a step of a table fill over a record reads the cell of every
\* mapped column that some key of the record names after trimming and
\* lower-casing with a value other than None (key "Item" for the title
\* "item"), in the record's row, and writes that value, as a trimmed
\* string, when the cell is changeable.
C34_RecordKeysNormalised ==
  [][(pc = "table_rows" /\ ri <= Len(tdata) /\ ri' = ri + 1) =>
       /\ {trace'[i].a : i \in NewReads} = MappedByNormalisedKey(tdata[ri])
       /\ \A i \in NewReads :
             /\ trace'[i].n = current_row_idx
             /\ trace'[i].b = "changeable" =>
                  \E key \in DOMAIN tdata[ri] :
                    /\ NormTitle(key) = trace'[i].a
                    /\ WriteOf(i) \in NewWrites
                    /\ trace'[WriteOf(i)].b =
                         CellText(trace'[i].a, tdata[ri][key]).value.text]_vars

\* the data selected for entry e holds, for a TEXT element of its screen,
\* a value _fill_text writes: the key is there and the value is not None
EntryHasWritableText(e) ==
  \E k \in 1..Len(ScreenOf(e).elements) :
     /\ ScreenOf(e).elements[k].type = "text"
     /\ Has(EntryData(e), ScreenOf(e).elements[k].name)
     /\ ~ IsNone(Get(EntryData(e), ScreenOf(e).elements[k].name))

\* C35: a screen entry whose selected data holds a value _fill_text would
\* write for one of the screen's TEXT elements (0, False and the empty
\* string included) is never passed over: _process_screen does not move
\* to the next entry without a driver call.
C35_SkipAgreesWithWriteRule ==
  [][(pc = "entry" /\ IsScreenEntry(idx) /\ EntryHasWritableText(idx)) =>
       ~ (pc' = "entry" /\ idx' = idx + 1 /\ trace' = trace)]_vars

\* a fill under the name completed without raising: a text write that
\* succeeded, a user function that returned, or a table fill whose commit
\* found no error dialog
CompletedFills(name) ==
  {i \in TraceIdx :
     /\ trace[i].el = name
     /\ \/ IsTextWrite(trace[i])
        \/ trace[i].op = "call" /\ trace[i].b = "returned"
        \/ /\ trace[i].op = "error_dialog" /\ trace[i].site = "table_commit"
           /\ trace[i].a # "modal"}

\* the step _fill_text makes for a TEXT element that has no value in the
\* data or is not located on the screen
TextNotFilled ==
  /\ pc = "fill" /\ ei <= Len(CurScreen.elements)
  /\ CurElement.type = "text"
  /\ ~ AlreadyProcessed(CurElement.name)
  /\ \/ trace' = trace
     \/ /\ Len(trace') = Len(trace) + 1
        /\ trace'[Len(trace')].op = "find"
        /\ trace'[Len(trace')].b = "missing"

\* C36: during a run a name is in processed_elements only if a fill under
\* that name completed without raising (a text write that succeeded, a
\* user function that returned, a table fill that returned), and the step
\* of a TEXT element that has no value in the data or is not found on the
\* screen adds nothing to processed_elements.
C36_ProcessedMeansFilled ==
  /\ [](cfg.kind = "run" => \A name \in processed : CompletedFills(name) # {})
  /\ [][(cfg.kind = "run" /\ TextNotFilled /\ ei' = ei + 1) =>
          processed' = processed]_vars

\* a TEXT element was not found on one screen and the same name was
\* written on a later screen of the run
C36_Witness ==
  /\ cfg.kind = "run"
  /\ \E i, j \in TraceIdx :
        /\ i < j
        /\ trace[i].op = "find" /\ trace[i].b = "missing"
        /\ trace[i].site = "element"
        /\ trace[j].op = "write"
        /\ trace[j].el = trace[i].el
        /\ trace[j].ent > trace[i].ent
        /\ trace[j].el \in processed

\* the error checks of page turns that met an error dialog
PageTurnErrors ==
  {i \in TraceIdx : /\ trace[i].op = "error_dialog"
                    /\ trace[i].site = "table_row"
                    /\ trace[i].a = "modal"}

\* C37: when the error check of a page turn raises, it is the last driver
\* call of the run: the fill has stopped with SAPTableConfigurationError,
\* no cell is read or written after it, the grid is not located again, no
\* table commit and no confirm key of the enclosing screen follow, no
\* on_exit action is performed, and the TABLE element is not in
\* processed_elements.
C37_PageTurnErrorStopsFill ==
  \A i \in PageTurnErrors :
     /\ pc = "raised"
     /\ err = "SAPTableConfigurationError"
     /\ i = Len(trace)
     /\ ri <= Len(tdata)
     /\ Len(placed) = ri
     /\ cfg.kind = "run" =>
          /\ trace[i].el \notin processed
          /\ idx = trace[i].ent
          /\ ei = trace[i].pos
          /\ SiteEvents(idx, {"table_commit", "commit", "on_exit"}) = {}

\* a page turn of a table fill inside a run met an error dialog after
\* cells had been written, on a screen that commits and has more records
C37_Witness ==
  /\ cfg.kind = "run"
  /\ PageTurnErrors # {}
  /\ ri < Len(tdata)
  /\ \E j \in TraceIdx : trace[j].op = "cell_write" /\ trace[j].ent = idx
  /\ CommitsScreen(CurScreen)

\* the attempts made to write the element at position p of entry e
WriteAttempts(e, p) ==
  {i \in AttemptsAt(e, p, "find") : trace[i].b = "found"}

\* the dismiss_popups calls and the keys sent to window 1
DismissCalls == {i \in TraceIdx : trace[i].op = "dismiss_popups"}
PopupWindowKeys ==
  {i \in TraceIdx : trace[i].op = "vkey" /\ trace[i].b = "wnd[1]"}

\* the page-turn keys a step adds to the trace
NewPageTurns ==
  {i \in (Len(trace) + 1)..Len(trace') :
     trace'[i].op = "vkey" /\ trace'[i].m = 1}

\* C38: once run() has been called it returns or raises, given that every
\* driver call returns and every popup goes away after finitely many
\* dismiss keys.  The entries of the screen order are taken up one after
\* the other, each once; an element's write is attempted at most 4
\* times; a step of a table fill over one record turns the page at most
\* once; and dismiss_popups sends one key to window 1 for each popup
\* dialog it meets and none after the last one: the keys sent to window 1
\* are exactly those.
C38_RunTerminates ==
  /\ [](cfg.kind = "run" =>
          /\ \A i, j \in TraceIdx : i < j => trace[i].ent <= trace[j].ent
          /\ \A i \in TraceIdx :
                Cardinality(WriteAttempts(trace[i].ent, trace[i].pos))
                  <= MaxAttempts
          /\ \A i \in DismissCalls :
                /\ i + trace[i].n <= Len(trace)
                /\ \A j \in (i + 1)..(i + trace[i].n) : j \in PopupWindowKeys
                /\ i + trace[i].n + 1 \notin PopupWindowKeys
          /\ \A j \in PopupWindowKeys :
                \E i \in DismissCalls : i < j /\ j <= i + trace[i].n)
  /\ [][/\ idx' \in {idx, idx + 1}
        /\ Cardinality(NewPageTurns) <= 1
        /\ Terminated => UNCHANGED vars]_vars
  /\ (pc \notin {"init", "ready"}) ~> Terminated

\* a run that turned a page of a table and dismissed a popup has returned
C38_Witness ==
  /\ cfg.kind = "run"
  /\ pc = "done"
  /\ PageTurns # {}
  /\ PopupWindowKeys # {}

\* the calls of the manager made so far that closed something and returned,
\* with no open_connection that returned after them
ClosedAndNotReopened ==
  \E i \in TraceIdx :
     /\ trace[i].op \in {"close_session", "close_connection"}
     /\ trace[i].b = "returned"
     /\ \A j \in TraceIdx :
           j > i => ~ (trace[j].op = "open_connection" /\ trace[j].b = "returned")

\* C39: on a SAPConnectionManager, after a close_session or
\* close_connection that returned and until an open_connection succeeds,
\* reading the session property raises SAPError; and whenever the session
\* property gives a session, the manager holds the connection that session
\* belongs to.
C39_SessionAfterClose ==
  pc = "conn" =>
    /\ ClosedAndNotReopened => SessionProperty = "SAPError"
    /\ SessionProperty # "SAPError" => _connection = ParentOf(_session)

====
